---- MODULE Spec2Model ----
(***************************************************************************)
(* Tiles-R-Us showroom: the pricing calculator, the delivery quote, the    *)
(* login and the localStorage-backed order ledger of App                   *)
(* (src/public/service-worker.js), as a state machine.                     *)
(*                                                                         *)
(* Conventions of the model                                                *)
(*   - A string the code parses, trims or matches is a sequence of         *)
(*     one-character strings; the other strings are atomic.                *)
(*   - A JavaScript number that may carry a fraction is a fixed-point      *)
(*     integer with Scale units per 1 (one decimal digit); counts are      *)
(*     plain integers.  Arithmetic is exact (no binary rounding).          *)
(*   - Lengths in meters are integers in units of 1/MeterScale m per       *)
(*     1/Scale of input, areas are products of two such lengths and are    *)
(*     kept as multi-digit naturals (little-endian digits in base Base),   *)
(*     because they exceed the 32-bit integers of TLC.                     *)
(*   - null is the empty sequence, a present value v is <<v>>.             *)
(*   - Every piece of per-session React state is a function of the tab     *)
(*     (browser tab = one UI session); localStorage is shared by the tabs. *)
(***************************************************************************)
EXTENDS Integers, Sequences, FiniteSets, TLC

\* ------------------------------------------------------------------ bounds
NumTabs == 2
MaxOrders == 2
MaxClock == 2
MaxObjects == 2

Tabs == 1..NumTabs

\* --------------------------------------------------------- number encoding
\* one decimal digit, the step of the numeric inputs (step="0.1")
Scale == 10
Base == Scale * Scale * Scale * Scale

NULL == <<>>
Some(v) == <<v>>
IsNull(o) == o = <<>>
Val(o) == o[1]

Range(s) == {s[i] : i \in 1..Len(s)}

\* ------------------------------------------------- multi-digit naturals
RECURSIVE BigOfInt(_)
BigOfInt(n) == IF n = 0 THEN <<>> ELSE <<n % Base>> \o BigOfInt(n \div Base)

RECURSIVE BigNorm(_)
BigNorm(a) ==
  IF a = <<>> THEN <<>>
  ELSE IF a[Len(a)] = 0 THEN BigNorm(SubSeq(a, 1, Len(a) - 1)) ELSE a

RECURSIVE BigAddC(_, _, _)
BigAddC(a, b, c) ==
  IF a = <<>> /\ b = <<>> THEN BigOfInt(c)
  ELSE LET x == IF a = <<>> THEN 0 ELSE Head(a)
           y == IF b = <<>> THEN 0 ELSE Head(b)
           s == x + y + c
       IN <<s % Base>> \o BigAddC(IF a = <<>> THEN <<>> ELSE Tail(a),
                                  IF b = <<>> THEN <<>> ELSE Tail(b),
                                  s \div Base)

BigAdd(a, b) == BigNorm(BigAddC(a, b, 0))

RECURSIVE BigMulDigit(_, _, _)
BigMulDigit(a, k, c) ==
  IF a = <<>> THEN BigOfInt(c)
  ELSE LET p == Head(a) * k + c
       IN <<p % Base>> \o BigMulDigit(Tail(a), k, p \div Base)

RECURSIVE BigMul(_, _)
BigMul(a, b) ==
  IF b = <<>> \/ a = <<>> THEN <<>>
  ELSE BigAdd(BigNorm(BigMulDigit(a, Head(b), 0)),
              IF Tail(b) = <<>> THEN <<>> ELSE <<0>> \o BigMul(a, Tail(b)))

RECURSIVE BigLeqFrom(_, _, _)
BigLeqFrom(a, b, i) ==
  IF i = 0 THEN TRUE
  ELSE IF a[i] # b[i] THEN a[i] < b[i] ELSE BigLeqFrom(a, b, i - 1)

\* a <= b, both normalised
BigLeq(a, b) ==
  IF Len(a) # Len(b) THEN Len(a) < Len(b) ELSE BigLeqFrom(a, b, Len(a))

BigLess(a, b) == ~BigLeq(b, a)

RECURSIVE BigToInt(_)
BigToInt(a) == IF a = <<>> THEN 0 ELSE Head(a) + Base * BigToInt(Tail(a))

\* least q in lo..hi with n <= q * d
RECURSIVE CeilSearch(_, _, _, _)
CeilSearch(n, d, lo, hi) ==
  IF lo >= hi THEN lo
  ELSE LET mid == (lo + hi) \div 2
       IN IF BigLeq(n, BigMul(d, BigOfInt(mid)))
          THEN CeilSearch(n, d, lo, mid)
          ELSE CeilSearch(n, d, mid + 1, hi)

RECURSIVE CeilUpper(_, _, _)
CeilUpper(n, d, hi) ==
  IF BigLeq(n, BigMul(d, BigOfInt(hi))) THEN hi ELSE CeilUpper(n, d, 2 * hi)

\* Math.ceil(n / d) for naturals n, d with d > 0
BigCeilDiv(n, d) == CeilSearch(n, d, 0, CeilUpper(n, d, 1))

\* Math.floor(n / d) and Math.round(n / d), d > 0
BigFloorDiv(n, d) ==
  LET c == BigCeilDiv(n, d)
  IN IF BigMul(d, BigOfInt(c)) = n THEN c ELSE c - 1

\* ------------------------------------------------------------- strings
Digits == <<"0", "1", "2", "3", "4", "5", "6", "7", "8", "9">>
IsDigit(c) == c \in Range(Digits)
DigitVal(c) == (CHOOSE i \in 1..10 : Digits[i] = c) - 1

RECURSIVE TrimLeft(_)
TrimLeft(s) ==
  IF s # <<>> /\ Head(s) = " " THEN TrimLeft(Tail(s)) ELSE s

RECURSIVE TrimRight(_)
TrimRight(s) ==
  IF s # <<>> /\ s[Len(s)] = " " THEN TrimRight(SubSeq(s, 1, Len(s) - 1)) ELSE s

\* String.prototype.trim
Trim(s) == TrimRight(TrimLeft(s))

\* number of leading decimal digits of s
RECURSIVE DigitRun(_)
DigitRun(s) ==
  IF s # <<>> /\ IsDigit(Head(s)) THEN 1 + DigitRun(Tail(s)) ELSE 0

\* value of the digit string s
RECURSIVE DigitsValue(_)
DigitsValue(s) ==
  IF s = <<>> THEN 0 ELSE 10 * DigitsValue(SubSeq(s, 1, Len(s) - 1)) + DigitVal(s[Len(s)])

\* decimal digits of a natural number
RECURSIVE DigitsOf(_)
DigitsOf(k) ==
  IF k < 10 THEN <<Digits[k + 1]>> ELSE DigitsOf(k \div 10) \o <<Digits[(k % 10) + 1]>>

UpperCase == <<"A", "B", "C", "D", "E", "F", "G", "H", "I", "J", "K", "L", "M",
               "N", "O", "P", "Q", "R", "S", "T", "U", "V", "W", "X", "Y", "Z">>
LowerCase == <<"a", "b", "c", "d", "e", "f", "g", "h", "i", "j", "k", "l", "m",
               "n", "o", "p", "q", "r", "s", "t", "u", "v", "w", "x", "y", "z">>
LowerChar(c) ==
  IF c \in Range(UpperCase) THEN LowerCase[CHOOSE i \in 1..26 : UpperCase[i] = c] ELSE c
\* String.prototype.toLowerCase
toLowerCase(s) == [i \in 1..Len(s) |-> LowerChar(s[i])]

\* s.replace(/parish/gi, "")
RECURSIVE RemoveParishWord(_)
RemoveParishWord(s) ==
  IF s = <<>> THEN <<>>
  ELSE IF Len(s) >= 6 /\ toLowerCase(SubSeq(s, 1, 6)) = <<"p", "a", "r", "i", "s", "h">>
       THEN RemoveParishWord(SubSeq(s, 7, Len(s)))
       ELSE <<Head(s)>> \o RemoveParishWord(Tail(s))

\* s.replace(/^st[.\s]/i, "Saint ")
ReplaceStPrefix(s) ==
  IF Len(s) >= 3 /\ toLowerCase(SubSeq(s, 1, 2)) = <<"s", "t">> /\ s[3] \in {".", " "}
  THEN <<"S", "a", "i", "n", "t", " ">> \o SubSeq(s, 4, Len(s))
  ELSE s

normalizeParish(name) ==
  IF name = <<>> THEN <<>>
  ELSE toLowerCase(Trim(ReplaceStPrefix(RemoveParishWord(name))))

JAMAICA_PARISHES == <<
  <<"K", "i", "n", "g", "s", "t", "o", "n">>,
  <<"S", "a", "i", "n", "t", " ", "A", "n", "d", "r", "e", "w">>,
  <<"S", "a", "i", "n", "t", " ", "T", "h", "o", "m", "a", "s">>,
  <<"P", "o", "r", "t", "l", "a", "n", "d">>,
  <<"S", "a", "i", "n", "t", " ", "M", "a", "r", "y">>,
  <<"S", "a", "i", "n", "t", " ", "A", "n", "n">>,
  <<"T", "r", "e", "l", "a", "w", "n", "y">>,
  <<"S", "a", "i", "n", "t", " ", "J", "a", "m", "e", "s">>,
  <<"H", "a", "n", "o", "v", "e", "r">>,
  <<"W", "e", "s", "t", "m", "o", "r", "e", "l", "a", "n", "d">>,
  <<"S", "a", "i", "n", "t", " ", "E", "l", "i", "z", "a", "b", "e", "t", "h">>,
  <<"M", "a", "n", "c", "h", "e", "s", "t", "e", "r">>,
  <<"C", "l", "a", "r", "e", "n", "d", "o", "n">>,
  <<"S", "a", "i", "n", "t", " ", "C", "a", "t", "h", "e", "r", "i", "n", "e">> >>

\* normalizeParish(p) of every list entry p
NormalizedParishes == [i \in 1..Len(JAMAICA_PARISHES) |-> normalizeParish(JAMAICA_PARISHES[i])]

\* String.prototype.includes
Includes(s, sub) ==
  \E i \in 1..(Len(s) - Len(sub) + 1) : SubSeq(s, i, i + Len(sub) - 1) = sub

\* the canonical parish found in anyString, or null; Array.prototype.find
\* returns the first entry of the list that fits
matchParishName(anyString) ==
  IF anyString = <<>> THEN NULL
  ELSE LET str == normalizeParish(anyString)
           fits == {i \in 1..Len(JAMAICA_PARISHES) :
                      \/ NormalizedParishes[i] = str
                      \/ Includes(str, NormalizedParishes[i])}
       IN IF fits = {} THEN NULL
          ELSE Some(JAMAICA_PARISHES[CHOOSE i \in fits : \A j \in fits : i <= j])

NaN == [nan |-> TRUE, val |-> 0]
Num(v) == [nan |-> FALSE, val |-> v]
isNaN(x) == x.nan

\* parseFloat: leading blanks, an optional sign, digits, an optional fraction;
\* the longest numeric prefix counts and NaN is returned when there is none.
\* The result is fixed-point: fraction digits past the first are dropped
\* (the inputs of the model carry at most one).
parseFloat(str) ==
  LET s0    == TrimLeft(str)
      neg   == s0 # <<>> /\ Head(s0) = "-"
      s1    == IF s0 # <<>> /\ Head(s0) \in {"-", "+"} THEN Tail(s0) ELSE s0
      ni    == DigitRun(s1)
      rest  == SubSeq(s1, ni + 1, Len(s1))
      frac  == IF rest # <<>> /\ Head(rest) = "." THEN Tail(rest) ELSE <<>>
      nf    == DigitRun(frac)
      whole == DigitsValue(SubSeq(s1, 1, ni))
      tenth == IF nf = 0 THEN 0 ELSE DigitVal(frac[1])
      mag   == whole * Scale + tenth
  IN IF ni = 0 /\ nf = 0 THEN NaN
     ELSE Num(IF neg THEN 0 - mag ELSE mag)

\* JavaScript truthiness of a number: NaN and 0 are falsy
Truthy(x) == ~x.nan /\ x.val # 0

\* ------------------------------------------------------ program constants
\* 0.3048 and 0.0254 in units of 1/10000
FT_TO_M == 3048
IN_TO_M == 254
\* 10.7639 in units of 1/10000
SQFT_PER_M2 == 107639
THINSET_BAG_COVERAGE_SQFT == 50
THINSET_BAG_PRICE == 1500
IN_PARISH_FLAT_FEE == 1500
IN_PARISH_FLAT_MILES == 5
IN_PARISH_PER_MILE == 250
NEW_PARISH_FLAT_FEE == 3500
NEW_PARISH_PER_MILE == 450

\* lengths are held in 1/MeterScale m, areas in 1/MeterScale^2 m2
MeterScale == Base * Scale
\* one square foot in the unit of roomAreaSqFt (1/(MeterScale^2 * Base) ft2)
SqFtOne == BigMul(BigMul(BigOfInt(MeterScale), BigOfInt(MeterScale)), BigOfInt(Base))

\* ------------------------------------------------------------ helpers
convertToMeters_inchesAsFeet(value, unit) ==
  LET v == parseFloat(value)
  IN IF isNaN(v) \/ v.val <= 0 THEN 0
     ELSE IF unit \in {"ft", "in"} THEN v.val * FT_TO_M
     ELSE v.val * Base
convertToMeters(value, unit) ==
  LET v == parseFloat(value)
  IN IF isNaN(v) \/ v.val <= 0 THEN 0
     ELSE IF unit = "ft" THEN v.val * FT_TO_M
     ELSE IF unit = "in" THEN v.val * IN_TO_M
     ELSE v.val * Base

\* mutants: the per-mile rate charged from the first mile; the in-parish
\* per-mile rate used for a new parish
computeDeliveryCost_fromFirstMile(method, milesInput, newParish) ==
  IF method # "delivery" THEN 0
  ELSE LET miles == parseFloat(milesInput)
       IN IF newParish
          THEN LET insideMiles == IF isNaN(miles) \/ miles.val < 0 THEN 0 ELSE miles.val
               IN NEW_PARISH_FLAT_FEE * Scale + insideMiles * NEW_PARISH_PER_MILE
          ELSE IF isNaN(miles) \/ miles.val <= 0 THEN 0
               ELSE IN_PARISH_FLAT_FEE * Scale + miles.val * IN_PARISH_PER_MILE

computeDeliveryCost_inParishRate(method, milesInput, newParish) ==
  IF method # "delivery" THEN 0
  ELSE LET miles == parseFloat(milesInput)
       IN IF newParish
          THEN LET insideMiles == IF isNaN(miles) \/ miles.val < 0 THEN 0 ELSE miles.val
               IN NEW_PARISH_FLAT_FEE * Scale + insideMiles * IN_PARISH_PER_MILE
          ELSE IF isNaN(miles) \/ miles.val <= 0 THEN 0
               ELSE IF miles.val <= IN_PARISH_FLAT_MILES * Scale
                    THEN IN_PARISH_FLAT_FEE * Scale
                    ELSE IN_PARISH_FLAT_FEE * Scale
                         + (miles.val - IN_PARISH_FLAT_MILES * Scale) * IN_PARISH_PER_MILE

computeDeliveryCost(method, milesInput, newParish) ==
  IF method # "delivery" THEN 0
  ELSE LET miles == parseFloat(milesInput)
       IN IF newParish
          THEN LET insideMiles == IF isNaN(miles) \/ miles.val < 0 THEN 0 ELSE miles.val
               IN NEW_PARISH_FLAT_FEE * Scale + insideMiles * NEW_PARISH_PER_MILE
          ELSE IF isNaN(miles) \/ miles.val <= 0 THEN 0
               ELSE IF miles.val <= IN_PARISH_FLAT_MILES * Scale
                    THEN IN_PARISH_FLAT_FEE * Scale
                    ELSE IN_PARISH_FLAT_FEE * Scale
                         + (miles.val - IN_PARISH_FLAT_MILES * Scale) * IN_PARISH_PER_MILE

\* ------------------------------------------------------------------ JSON
\* A JSON text is kept as its syntax tree: an object is the sequence of its
\* <<key, value>> members in insertion order, an array the sequence of its
\* items; numbers and strings stand for their literals.
ObjToJson(obj, keys) == [i \in 1..Len(keys) |-> <<keys[i], obj[keys[i]]>>]
Member(json, key) == json[CHOOSE i \in 1..Len(json) : json[i][1] = key][2]
JsonToObj(json) == [k \in {json[i][1] : i \in 1..Len(json)} |-> Member(json, k)]

\* the keys of the serialized objects, in insertion order
Keys ==
  [customer |-> <<"name", "phone", "email", "address", "notes">>,
   dimension |-> <<"length", "width", "unit">>,
   thinset |-> <<"bags", "bagPrice", "cost">>,
   store |-> <<"id", "name", "parish", "lat", "lon">>,
   auto |-> <<"totalMilesEstimate", "detectedParish", "roadFactor">>,
   delivery |-> <<"method", "isNewParish", "miles", "cost", "store", "auto">>,
   order |-> <<"orderId", "ticketNumber", "salesRep", "employeeId", "customer",
                 "tile", "wallTile", "tileDimensions", "tilePrice", "roomDimensions",
                 "tilesNeeded", "totalCost", "thinset", "delivery", "grandTotal",
                 "createdAt">>,
   rep |-> <<"id", "name", "username", "password", "employeeId">>]

StringifyDelivery(d) ==
  ObjToJson([d EXCEPT !.store = ObjToJson(@, Keys.store),
                      !.auto = ObjToJson(@, Keys.auto)], Keys.delivery)

ParseDelivery(json) ==
  LET d == JsonToObj(json)
  IN [d EXCEPT !.store = JsonToObj(@), !.auto = JsonToObj(@)]

StringifyOrder(o) ==
  ObjToJson([o EXCEPT !.customer = ObjToJson(@, Keys.customer),
                      !.tileDimensions = ObjToJson(@, Keys.dimension),
                      !.roomDimensions = ObjToJson(@, Keys.dimension),
                      !.thinset = ObjToJson(@, Keys.thinset),
                      !.delivery = StringifyDelivery(@)], Keys.order)

ParseOrder(json) ==
  LET o == JsonToObj(json)
  IN [o EXCEPT !.customer = JsonToObj(@),
               !.tileDimensions = JsonToObj(@),
               !.roomDimensions = JsonToObj(@),
               !.thinset = JsonToObj(@),
               !.delivery = ParseDelivery(@)]

\* JSON.stringify / JSON.parse of the order list, the rep list and one rep
StringifyOrders(list) == [i \in 1..Len(list) |-> StringifyOrder(list[i])]
ParseOrders(json) == [i \in 1..Len(json) |-> ParseOrder(json[i])]
StringifyRep(rep) == ObjToJson(rep, Keys.rep)
ParseRep(json) == JsonToObj(json)
StringifyReps(list) == [i \in 1..Len(list) |-> StringifyRep(list[i])]
ParseReps(json) == [i \in 1..Len(json) |-> ParseRep(json[i])]

\* --------------------------------------------------------------- state
VARIABLES
  form,            \* per tab: the values bound to the inputs (useState + onChange)
  result,          \* per tab: the calculator result, null before the first one
  deliveryCost,    \* per tab: the displayed delivery quote
  lookup,          \* per tab: auto-distance state
  loggedInUser,    \* per tab: the logged-in sales rep, or null
  orders,          \* per tab: the in-memory order list
  alert,           \* per tab: the alert raised by the last handler ("" if none)
  open,            \* per tab: whether the tab holds a mounted App
  localStorage,    \* shared by the tabs: key -> null or JSON text
  sessionStorage,  \* per tab: key -> null or JSON text
  now,             \* Date.now()
  scene,           \* per tab: the placed objects, the selection, the gizmo and the camera control
  draw,            \* per tab: generateTicketNumber while its loop runs, else null
  worker           \* the service worker: its cache and the answer to the last fetch

vars == <<form, result, deliveryCost, lookup, loggedInUser, orders, alert, open,
          localStorage, sessionStorage, now, scene, draw, worker>>

\* the parish names of the stores
StoreParish ==
  [SaintAndrew |-> <<"S", "a", "i", "n", "t", " ", "A", "n", "d", "r", "e", "w">>,
   SaintJames |-> <<"S", "a", "i", "n", "t", " ", "J", "a", "m", "e", "s">>,
   Manchester |-> <<"M", "a", "n", "c", "h", "e", "s", "t", "e", "r">>,
   SaintAnn |-> <<"S", "a", "i", "n", "t", " ", "A", "n", "n">>,
   SaintCatherine |-> <<"S", "a", "i", "n", "t", " ", "C", "a", "t", "h", "e", "r", "i", "n", "e">>]

STORES == <<
  [id |-> "KNG", name |-> "Kingston (HWT)", lat |-> 180179, lon |-> -767936, parish |-> StoreParish.SaintAndrew],
  [id |-> "MBJ", name |-> "Montego Bay", lat |-> 184667, lon |-> -779167, parish |-> StoreParish.SaintJames],
  [id |-> "MAN", name |-> "Mandeville", lat |-> 180425, lon |-> -775075, parish |-> StoreParish.Manchester],
  [id |-> "OCH", name |-> "Ocho Rios", lat |-> 184075, lon |-> -771031, parish |-> StoreParish.SaintAnn],
  [id |-> "SPN", name |-> "Spanish Town", lat |-> 179970, lon |-> -769570, parish |-> StoreParish.SaintCatherine] >>

\* 1.25 in units of 1/100
ROAD_FACTOR_DEFAULT == 125
\* a straight-line distance in tenths of a mile times a road factor in 1/100
MilesUnit == Scale * Scale * Scale

defaultRep ==
  [id |-> 1, name |-> "Default Rep", username |-> "rep1", password |-> "1234",
   employeeId |-> "EMP001"]

\* the useState initial values of App
InitialForm ==
  [tileLength |-> <<>>, tileWidth |-> <<>>, tileUnit |-> "m", tilePrice |-> <<>>,
   roomLength |-> <<>>, roomWidth |-> <<>>, roomUnit |-> "m",
   deliveryMethod |-> "pickup", deliveryMiles |-> <<>>, isNewParish |-> FALSE,
   selectedStoreId |-> "KNG", tile |-> "Marble", wallTile |-> "Marble",
   customerName |-> <<>>, customerPhone |-> <<>>, customerEmail |-> <<>>,
   customerAddress |-> <<>>, customerNotes |-> <<>>,
   username |-> "", password |-> "", rememberMe |-> FALSE,
   name |-> "", employeeId |-> "", isRegistering |-> FALSE]

\* autoTotalMiles is kept in 1/MilesUnit mile; pending is the lookup in flight
\* with the store and road factor its handler closed over, or null
InitialLookup ==
  [autoLoading |-> FALSE, autoError |-> "", autoTotalMiles |-> 0,
   detectedParish |-> <<>>, roadFactor |-> ROAD_FACTOR_DEFAULT, pending |-> NULL]

\* the scene of a fresh App: no object, nothing selected, the camera orbits,
\* the room is drawn at its real size, and no gizmo is held
InitialScene ==
  [objects |-> <<>>, selectedObjectId |-> NULL, orbitEnabled |-> TRUE,
   useRealScale |-> TRUE, dragging |-> FALSE]

\* ------------------------------------------------------ service worker
CACHE_NAME == "tile-it-3d-cache-v1"
urlsToCache == <<"/", "/index.html">>

\* what the server returns for a url once its content has reached `version`
NetworkResponse(url, version) == [body |-> <<url, version>>, ok |-> TRUE]
\* what fetch rejects with when the network is down
NetworkError == [body |-> <<>>, ok |-> FALSE]

\* new Request(url): a GET request
Request(url) == [url |-> url, method |-> "GET"]

\* cache.addAll(urls) with the server at `version`
addAll(urls, version) ==
  [i \in 1..Len(urls) |->
     [request |-> Request(urls[i]), response |-> NetworkResponse(urls[i], version)]]

\* the worker as the browser has parsed its script: the install event is due
RegisteredWorker ==
  [state |-> "installing", caches |-> [name \in {} |-> <<>>], respondedWith |-> NULL]

\* after a successful install event with the server at version 0; nothing
\* has been fetched through the worker
InstalledWorker ==
  [state |-> "activated",
   caches |-> [name \in {CACHE_NAME} |-> addAll(urlsToCache, 0)],
   respondedWith |-> NULL]

\* caches.match(request): the response of the first entry of any cache with
\* the url of the request, query included; only GET requests match
cachesMatch_never(caches, request) == NULL
cachesMatch(caches, request) ==
  LET hits == {h \in (DOMAIN caches) \X (1..Len(urlsToCache)) :
                 /\ h[2] <= Len(caches[h[1]])
                 /\ request.method = "GET"
                 /\ caches[h[1]][h[2]].request.url = request.url}
  IN IF hits = {} THEN NULL
     ELSE LET first == CHOOSE h \in hits : \A g \in hits : h[2] <= g[2]
          IN Some(caches[first[1]][first[2]].response)

EmptyStorage == [orders |-> NULL, salesReps |-> NULL, loggedInUser |-> NULL]
EmptySessionStorage == [loggedInUser |-> NULL]

\* localStorage.getItem("orders") read as App does: JSON.parse(saved) or []
StoredOrders(ls) == IF IsNull(ls.orders) THEN <<>> ELSE ParseOrders(Val(ls.orders))
\* JSON.parse(localStorage.getItem("salesReps") || "[]")
StoredReps(ls) == IF IsNull(ls.salesReps) THEN <<>> ELSE ParseReps(Val(ls.salesReps))

selectedStore(f) ==
  IF \E i \in 1..Len(STORES) : STORES[i].id = f.selectedStoreId
  THEN STORES[CHOOSE i \in 1..Len(STORES) : STORES[i].id = f.selectedStoreId]
  ELSE STORES[1]

\* the mount effect: seed the default rep when no rep is stored
SeedReps(ls) ==
  IF Len(StoredReps(ls)) = 0
  THEN [ls EXCEPT !.salesReps = Some(StringifyReps(<<defaultRep>>))]
  ELSE ls

\* the mount effect: the remembered user of localStorage, else of sessionStorage
StoredUser(ls, ss) ==
  IF ~IsNull(ls.loggedInUser) THEN Some(ParseRep(Val(ls.loggedInUser)))
  ELSE IF ~IsNull(ss.loggedInUser) THEN Some(ParseRep(Val(ss.loggedInUser)))
  ELSE NULL

\* the effect that keeps deliveryCost in sync with its three inputs
DeliveryCostEffect_withoutFlag(f) ==
  computeDeliveryCost(f.deliveryMethod, f.deliveryMiles, FALSE)
DeliveryCostEffect(f) ==
  computeDeliveryCost(f.deliveryMethod, f.deliveryMiles, f.isNewParish)

\* ---------------------------------------------------------- calculator
\* the guard of handleCalculate: every length converts to a non-zero number
\* and the price is truthy
CalcInputsOk(f) ==
  /\ convertToMeters(f.tileLength, f.tileUnit) # 0
  /\ convertToMeters(f.tileWidth, f.tileUnit) # 0
  /\ convertToMeters(f.roomLength, f.roomUnit) # 0
  /\ convertToMeters(f.roomWidth, f.roomUnit) # 0
  /\ Truthy(parseFloat(f.tilePrice))

\* Math.ceil(roomArea / tileArea)
TilesNeeded_floor(roomArea, tileArea) == BigFloorDiv(roomArea, tileArea)
TilesNeeded(roomArea, tileArea) == BigCeilDiv(roomArea, tileArea)

\* roomArea * 10.7639
RoomAreaSqFt(roomArea) == BigMul(roomArea, BigOfInt(SQFT_PER_M2))

\* Math.max(0, Math.ceil(roomAreaSqFt / THINSET_BAG_COVERAGE_SQFT))
ThinsetBags_floor(roomAreaSqFt) ==
  BigFloorDiv(roomAreaSqFt, BigMul(BigOfInt(THINSET_BAG_COVERAGE_SQFT), SqFtOne))
ThinsetBags(roomAreaSqFt) ==
  LET bags == BigCeilDiv(roomAreaSqFt, BigMul(BigOfInt(THINSET_BAG_COVERAGE_SQFT), SqFtOne))
  IN IF bags < 0 THEN 0 ELSE bags

\* tileTotalCost + thinsetCost + deliveryCostNow
GrandTotal_noDelivery(tileTotalCost, thinsetCost, deliveryCostNow) ==
  tileTotalCost + thinsetCost
GrandTotal(tileTotalCost, thinsetCost, deliveryCostNow) ==
  tileTotalCost + thinsetCost + deliveryCostNow

\* the object handleCalculate passes to setResult (money is fixed-point)
CalcResult(f, lk) ==
  LET tLength == convertToMeters(f.tileLength, f.tileUnit)
      tWidth  == convertToMeters(f.tileWidth, f.tileUnit)
      rLength == convertToMeters(f.roomLength, f.roomUnit)
      rWidth  == convertToMeters(f.roomWidth, f.roomUnit)
      price   == parseFloat(f.tilePrice)
      tileArea == BigMul(BigOfInt(tLength), BigOfInt(tWidth))
      roomArea == BigMul(BigOfInt(rLength), BigOfInt(rWidth))
      tilesNeeded == TilesNeeded(roomArea, tileArea)
      tileTotalCost == tilesNeeded * price.val
      roomAreaSqFt == RoomAreaSqFt(roomArea)
      thinsetBags == ThinsetBags(roomAreaSqFt)
      thinsetCost == thinsetBags * THINSET_BAG_PRICE * Scale
      deliveryCostNow == computeDeliveryCost(f.deliveryMethod, f.deliveryMiles, f.isNewParish)
      miles == parseFloat(f.deliveryMiles)
      store == selectedStore(f)
  IN [tilesNeeded |-> tilesNeeded,
      totalCost |-> tileTotalCost,
      roomAreaM2 |-> roomArea,
      roomAreaSqFt |-> roomAreaSqFt,
      thinsetBags |-> thinsetBags,
      thinsetBagCoverageSqFt |-> THINSET_BAG_COVERAGE_SQFT,
      thinsetBagPrice |-> THINSET_BAG_PRICE,
      thinsetCost |-> thinsetCost,
      delivery |->
        [method |-> f.deliveryMethod,
         isNewParish |-> f.isNewParish,
         miles |-> IF Truthy(miles) THEN miles.val ELSE 0,
         cost |-> deliveryCostNow,
         store |-> [id |-> store.id, name |-> store.name, parish |-> store.parish,
                    lat |-> store.lat, lon |-> store.lon],
         auto |-> [totalMilesEstimate |-> lk.autoTotalMiles,
                   detectedParish |-> lk.detectedParish,
                   roadFactor |-> lk.roadFactor]],
      grandTotal |-> GrandTotal(tileTotalCost, thinsetCost, deliveryCostNow)]

\* the main screen is rendered only for a logged-in rep
MainScreen(t) == open[t] /\ ~IsNull(loggedInUser[t])
LoginScreen(t) == open[t] /\ IsNull(loggedInUser[t])

AuthFields == {"username", "password", "rememberMe", "name", "employeeId"}
RegisterFields == {"name", "employeeId"}
DeliveryDetailFields == {"deliveryMiles", "isNewParish"}

\* an onChange handler of one input: set the bound state, then the effects run
EditField(t, field, value) ==
  /\ IF field \in AuthFields THEN LoginScreen(t) ELSE MainScreen(t)
  /\ field \in DeliveryDetailFields => form[t].deliveryMethod = "delivery"
  /\ field \in RegisterFields => form[t].isRegistering
  /\ field = "rememberMe" => ~form[t].isRegistering
  /\ form' = [form EXCEPT ![t][field] = value]
  /\ deliveryCost' = [deliveryCost EXCEPT ![t] = DeliveryCostEffect(form'[t])]
  /\ alert' = [alert EXCEPT ![t] = ""]
  /\ UNCHANGED <<result, lookup, loggedInUser, orders, open, localStorage,
                 sessionStorage, now, scene, draw, worker>>

HandleCalculate(t) ==
  /\ MainScreen(t)
  /\ IF ~CalcInputsOk(form[t])
     THEN /\ alert' = [alert EXCEPT ![t] = "Please enter all values correctly"]
          /\ UNCHANGED result
     ELSE /\ result' = [result EXCEPT ![t] = Some(CalcResult(form[t], lookup[t]))]
          /\ alert' = [alert EXCEPT ![t] = ""]
  /\ UNCHANGED <<form, deliveryCost, lookup, loggedInUser, orders, open,
                 localStorage, sessionStorage, now, scene, draw, worker>>

\* ------------------------------------------------------------- ledger
\* Number.prototype.toString(36) of a natural number
Base36 == Digits \o LowerCase
RECURSIVE toString36(_)
toString36(n) ==
  IF n < 36 THEN <<Base36[n + 1]>> ELSE toString36(n \div 36) \o <<Base36[(n % 36) + 1]>>

\* `ORD-${timestamp}-${randomPart}`: the three parts, joined by "-" in the code
generateOrderId(clock, randomPart) == <<"ORD", toString36(clock), randomPart>>

\* the tickets generateTicketNumber must avoid: those of the persisted list
ExistingTickets(ls) == {StoredOrders(ls)[i].ticketNumber : i \in 1..Len(StoredOrders(ls))}

\* the exit condition of the do-while loop of generateTicketNumber
TicketAccepted(ls, ticket) == ticket \notin ExistingTickets(ls)

NewOrder(t, randomPart, ticket) ==
  LET f == form[t]
      r == Val(result[t])
      user == Val(loggedInUser[t])
  IN [orderId |-> generateOrderId(now, randomPart),
      ticketNumber |-> ticket,
      salesRep |-> user.name,
      employeeId |-> user.employeeId,
      customer |-> [name |-> Trim(f.customerName), phone |-> Trim(f.customerPhone),
                    email |-> Trim(f.customerEmail), address |-> Trim(f.customerAddress),
                    notes |-> Trim(f.customerNotes)],
      tile |-> f.tile,
      wallTile |-> f.wallTile,
      tileDimensions |-> [length |-> f.tileLength, width |-> f.tileWidth, unit |-> f.tileUnit],
      tilePrice |-> f.tilePrice,
      roomDimensions |-> [length |-> f.roomLength, width |-> f.roomWidth, unit |-> f.roomUnit],
      tilesNeeded |-> r.tilesNeeded,
      totalCost |-> r.totalCost,
      thinset |-> [bags |-> r.thinsetBags, bagPrice |-> r.thinsetBagPrice, cost |-> r.thinsetCost],
      delivery |-> r.delivery,
      grandTotal |-> r.grandTotal,
      createdAt |-> now]

\* [...orders, order]
UpdatedOrders_prepend(list, order) == <<order>> \o list
UpdatedOrders(list, order) == Append(list, order)

\* the blob written under "orders": JSON.stringify(updatedOrders)
OrdersBlob_stale(t, updatedOrders) == StringifyOrders(orders[t])
OrdersBlob(t, updatedOrders) == StringifyOrders(updatedOrders)

\* the checks of handlePlaceOrder, in order; "" when the order goes through
PlaceOrderAlert(t) ==
  LET f == form[t]
      miles == parseFloat(f.deliveryMiles)
  IN IF IsNull(result[t]) THEN "Please calculate tiles and cost first."
     ELSE IF IsNull(loggedInUser[t]) THEN "No sales rep logged in."
     ELSE IF Trim(f.customerName) = <<>> \/ Trim(f.customerPhone) = <<>>
          THEN "Please enter customer name and phone number."
     ELSE IF /\ f.deliveryMethod = "delivery" /\ ~f.isNewParish
             /\ (isNaN(miles) \/ miles.val <= 0)
          THEN "Please enter delivery miles (within parish)."
     ELSE ""

\* the button is rendered on the main screen once a result exists
HandlePlaceOrder(t, randomPart, ticket) ==
  /\ MainScreen(t)
  /\ ~IsNull(result[t])
  /\ Len(orders[t]) < MaxOrders
  /\ IF PlaceOrderAlert(t) # ""
     THEN /\ alert' = [alert EXCEPT ![t] = PlaceOrderAlert(t)]
          /\ UNCHANGED <<form, orders, localStorage>>
     ELSE /\ TicketAccepted(localStorage, ticket)
          /\ LET updatedOrders == UpdatedOrders(orders[t], NewOrder(t, randomPart, ticket))
             IN /\ orders' = [orders EXCEPT ![t] = updatedOrders]
                /\ localStorage' =
                     [localStorage EXCEPT !.orders = Some(OrdersBlob(t, updatedOrders))]
          /\ alert' = [alert EXCEPT ![t] = "Order Created!"]
          /\ form' = [form EXCEPT ![t].customerName = <<>>, ![t].customerPhone = <<>>,
                                  ![t].customerEmail = <<>>, ![t].customerAddress = <<>>,
                                  ![t].customerNotes = <<>>]
  /\ UNCHANGED <<result, deliveryCost, lookup, loggedInUser, open, sessionStorage, now, scene, draw, worker>>

\* handlePlaceOrder with the loop of generateTicketNumber taken one draw at a
\* time. draw[t] is the running call: the set `existing` read at its start,
\* the random part of the order id generated before it, and the ticket of the
\* last draw ("" before the first). The handler is one synchronous run, so
\* nothing else happens in between.
InLoop(t) == ~IsNull(draw[t])

\* the tickets Math.random can produce in the runs of the loop
TicketValues == {"TRU-AAAA-AAAA", "TRU-BBBB-BBBB"}

\* while (existing.has(ticket))
RetryDraw_untilTaken(existing, ticket) == ticket \notin existing
RetryDraw(existing, ticket) == ticket \in existing

\* the checks have passed and generateTicketNumber is entered; a placement
\* that is bound to spin stores nothing and is not counted against MaxOrders
PlaceOrderBegins(t, randomPart) ==
  /\ MainScreen(t)
  /\ ~IsNull(result[t])
  /\ ~InLoop(t)
  /\ PlaceOrderAlert(t) = ""
  /\ Len(orders[t]) < MaxOrders \/ TicketValues \subseteq ExistingTickets(localStorage)
  /\ draw' = [draw EXCEPT ![t] = Some([existing |-> ExistingTickets(localStorage),
                                       randomPart |-> randomPart, ticket |-> ""])]
  /\ UNCHANGED <<form, result, deliveryCost, lookup, loggedInUser, orders, alert, open,
                 localStorage, sessionStorage, now, scene, worker>>

\* one pass of the do-while body: `ticket` is drawn; the loop goes round again
\* or returns it, and then the order is built and stored
TicketDrawn(t, ticket) ==
  /\ InLoop(t)
  /\ IF RetryDraw(Val(draw[t]).existing, ticket)
     THEN /\ draw' = [draw EXCEPT ![t] = Some([Val(draw[t]) EXCEPT !.ticket = ticket])]
          /\ UNCHANGED <<form, orders, alert, localStorage>>
     ELSE /\ draw' = [draw EXCEPT ![t] = NULL]
          /\ LET updatedOrders ==
                   UpdatedOrders(orders[t], NewOrder(t, Val(draw[t]).randomPart, ticket))
             IN /\ orders' = [orders EXCEPT ![t] = updatedOrders]
                /\ localStorage' =
                     [localStorage EXCEPT !.orders = Some(OrdersBlob(t, updatedOrders))]
          /\ alert' = [alert EXCEPT ![t] = "Order Created!"]
          /\ form' = [form EXCEPT ![t].customerName = <<>>, ![t].customerPhone = <<>>,
                                  ![t].customerEmail = <<>>, ![t].customerAddress = <<>>,
                                  ![t].customerNotes = <<>>]
  /\ UNCHANGED <<result, deliveryCost, lookup, loggedInUser, open, sessionStorage, now,
                 scene, worker>>

\* ---------------------------------------------------------------- login
FoundRep_usernameOnly(ls, f) ==
  LET reps == StoredReps(ls)
      hits == {i \in 1..Len(reps) : reps[i].username = f.username}
  IN IF hits = {} THEN NULL
     ELSE Some(reps[CHOOSE i \in hits : \A j \in hits : i <= j])
FoundRep(ls, f) ==
  LET reps == StoredReps(ls)
      hits == {i \in 1..Len(reps) :
                 reps[i].username = f.username /\ reps[i].password = f.password}
  IN IF hits = {} THEN NULL
     ELSE Some(reps[CHOOSE i \in hits : \A j \in hits : i <= j])

\* the form submits to handleLogin unless it is in registration mode
HandleLogin(t) ==
  /\ LoginScreen(t)
  /\ ~form[t].isRegistering
  /\ LET found == FoundRep(localStorage, form[t])
     IN IF ~IsNull(found)
        THEN /\ loggedInUser' = [loggedInUser EXCEPT ![t] = found]
             /\ IF form[t].rememberMe
                THEN /\ localStorage' =
                          [localStorage EXCEPT !.loggedInUser = Some(StringifyRep(Val(found)))]
                     /\ sessionStorage' = [sessionStorage EXCEPT ![t].loggedInUser = NULL]
                ELSE /\ sessionStorage' =
                          [sessionStorage EXCEPT ![t].loggedInUser = Some(StringifyRep(Val(found)))]
                     /\ localStorage' = [localStorage EXCEPT !.loggedInUser = NULL]
             /\ form' = [form EXCEPT ![t].username = "", ![t].password = "",
                                     ![t].rememberMe = FALSE]
             /\ alert' = [alert EXCEPT ![t] = ""]
        ELSE /\ alert' = [alert EXCEPT ![t] = "Invalid username or password"]
             /\ UNCHANGED <<loggedInUser, localStorage, sessionStorage, form>>
  /\ UNCHANGED <<result, deliveryCost, lookup, orders, open, now, scene, draw, worker>>

\* ---------------------------------------------------------- registration
\* the link under the form: setIsRegistering(!isRegistering)
ToggleRegistering(t) ==
  /\ LoginScreen(t)
  /\ form' = [form EXCEPT ![t].isRegistering = ~@]
  /\ alert' = [alert EXCEPT ![t] = ""]
  /\ UNCHANGED <<result, deliveryCost, lookup, loggedInUser, orders, open, localStorage,
                 sessionStorage, now, scene, draw, worker>>

\* reps.some((rep) => rep.username === username)
UsernameTaken_never(reps, username) == FALSE
UsernameTaken(reps, username) == \E i \in 1..Len(reps) : reps[i].username = username

HandleRegister(t) ==
  /\ LoginScreen(t)
  /\ form[t].isRegistering
  /\ LET f == form[t]
         reps == StoredReps(localStorage)
         newRep == [id |-> now, name |-> f.name, username |-> f.username,
                    password |-> f.password, employeeId |-> f.employeeId]
     IN IF f.name = "" \/ f.username = "" \/ f.password = "" \/ f.employeeId = ""
        THEN /\ alert' = [alert EXCEPT ![t] = "Please fill in all fields"]
             /\ UNCHANGED <<form, localStorage>>
        ELSE IF UsernameTaken(reps, f.username)
        THEN /\ alert' = [alert EXCEPT ![t] = "Username already exists"]
             /\ UNCHANGED <<form, localStorage>>
        ELSE /\ localStorage' = [localStorage EXCEPT
                                   !.salesReps = Some(StringifyReps(Append(reps, newRep)))]
             /\ alert' = [alert EXCEPT ![t] = "Registered! You can now log in."]
             /\ form' = [form EXCEPT ![t].isRegistering = FALSE, ![t].name = "",
                                     ![t].username = "", ![t].password = "",
                                     ![t].employeeId = ""]
  /\ UNCHANGED <<result, deliveryCost, lookup, loggedInUser, orders, open, sessionStorage, now, scene, draw, worker>>

HandleLogout_keepsLocal(t) ==
  /\ MainScreen(t)
  /\ loggedInUser' = [loggedInUser EXCEPT ![t] = NULL]
  /\ sessionStorage' = [sessionStorage EXCEPT ![t].loggedInUser = NULL]
  /\ alert' = [alert EXCEPT ![t] = ""]
  /\ scene' = [scene EXCEPT ![t].dragging = FALSE]
  /\ UNCHANGED <<form, result, deliveryCost, lookup, orders, open, localStorage, now, draw, worker>>
HandleLogout(t) ==
  /\ MainScreen(t)
  /\ loggedInUser' = [loggedInUser EXCEPT ![t] = NULL]
  /\ localStorage' = [localStorage EXCEPT !.loggedInUser = NULL]
  /\ sessionStorage' = [sessionStorage EXCEPT ![t].loggedInUser = NULL]
  /\ alert' = [alert EXCEPT ![t] = ""]
  /\ scene' = [scene EXCEPT ![t].dragging = FALSE]
  /\ UNCHANGED <<form, result, deliveryCost, lookup, orders, open, now, draw, worker>>

\* --------------------------------------------------------- auto-distance
\* x.toFixed(1) of a non-negative x given in 1/unit, as a number of tenths
\* (the drawn distances avoid the ties that binary rounding decides)
toFixed1(x, unit) == (x * Scale + unit \div 2) \div unit

\* String(n) of a non-negative number of tenths
StringOfTenths(n) ==
  DigitsOf(n \div Scale) \o (IF n % Scale = 0 THEN <<>> ELSE <<".">> \o DigitsOf(n % Scale))

Max(a, b) == IF a >= b THEN a ELSE b

AutoDistanceForm_fullMiles(f, store, totalMiles, destParishGuess) ==
  [f EXCEPT !.deliveryMiles = StringOfTenths(toFixed1(totalMiles, MilesUnit))]

\* the form after applyAutoDistanceToUI(totalMiles, destParishGuess), store
\* being the selectedStore of the render the lookup was started from
AutoDistanceForm(f, store, totalMiles, destParishGuess) ==
  LET cross == normalizeParish(destParishGuess) # normalizeParish(store.parish)
      estimateInside == Max(1 * Scale, toFixed1(totalMiles * 3, MilesUnit * Scale))
  IN IF destParishGuess # <<>>
     THEN [f EXCEPT !.isNewParish = cross,
                    !.deliveryMiles = IF cross THEN StringOfTenths(estimateInside)
                                      ELSE StringOfTenths(toFixed1(totalMiles, MilesUnit))]
     ELSE [f EXCEPT !.deliveryMiles = StringOfTenths(toFixed1(totalMiles, MilesUnit))]

\* the lookup buttons are rendered for deliveryMethod "delivery" and disabled
\* while a lookup is loading
LookupEnabled(t) ==
  MainScreen(t) /\ form[t].deliveryMethod = "delivery" /\ ~lookup[t].autoLoading

StartLookup(t, kind) ==
  /\ lookup' = [lookup EXCEPT ![t].autoError = "", ![t].autoLoading = TRUE,
                              ![t].pending = Some([kind |-> kind,
                                                   store |-> selectedStore(form[t]),
                                                   roadFactor |-> lookup[t].roadFactor])]
  /\ alert' = [alert EXCEPT ![t] = ""]
  /\ UNCHANGED <<form, result, deliveryCost, loggedInUser, orders, open, localStorage,
                 sessionStorage, now, scene, draw, worker>>

\* the button is disabled for a blank address, so the alert of the handler
\* is never raised from the screen
HandleLookupFromAddress(t) ==
  /\ LookupEnabled(t)
  /\ Trim(form[t].customerAddress) # <<>>
  /\ StartLookup(t, "address")

\* the browser provides navigator.geolocation
HandleUseMyLocation(t) ==
  /\ LookupEnabled(t)
  /\ StartLookup(t, "location")

\* the geocoder or the position arrives: straight is haversineMiles from the
\* store to the place in tenths of a mile, parishGuess the matched parish or
\* the empty text
LookupResolved(t, straight, parishGuess) ==
  /\ open[t] /\ ~IsNull(lookup[t].pending)
  /\ LET p == Val(lookup[t].pending)
         estimated == straight * p.roadFactor
     IN /\ form' = [form EXCEPT ![t] = AutoDistanceForm(@, p.store, estimated, parishGuess)]
        /\ lookup' = [lookup EXCEPT ![t].autoTotalMiles = estimated,
                                    ![t].detectedParish = parishGuess,
                                    ![t].autoLoading = FALSE,
                                    ![t].pending = NULL]
  /\ deliveryCost' = [deliveryCost EXCEPT ![t] = DeliveryCostEffect(form'[t])]
  /\ UNCHANGED <<result, loggedInUser, orders, alert, open, localStorage,
                 sessionStorage, now, scene, draw, worker>>

AddressLookupFailed == "No results found"
LocationLookupFailed == "Unable to get current location."

LookupFailed_dropsEstimate(t, message) ==
  /\ open[t] /\ ~IsNull(lookup[t].pending)
  /\ lookup' = [lookup EXCEPT ![t].autoError = message, ![t].autoLoading = FALSE,
                              ![t].autoTotalMiles = 0, ![t].detectedParish = <<>>,
                              ![t].pending = NULL]
  /\ UNCHANGED <<form, result, deliveryCost, loggedInUser, orders, alert, open,
                 localStorage, sessionStorage, now, scene, draw, worker>>
LookupFailed_staysLoading(t, message) ==
  /\ open[t] /\ ~IsNull(lookup[t].pending)
  /\ lookup' = [lookup EXCEPT ![t].autoError = message, ![t].pending = NULL]
  /\ UNCHANGED <<form, result, deliveryCost, loggedInUser, orders, alert, open,
                 localStorage, sessionStorage, now, scene, draw, worker>>
LookupFailed_fallbackText(t, message) ==
  /\ open[t] /\ ~IsNull(lookup[t].pending)
  /\ lookup' = [lookup EXCEPT ![t].autoError = "Address lookup failed.",
                              ![t].autoLoading = FALSE,
                              ![t].pending = NULL]
  /\ UNCHANGED <<form, result, deliveryCost, loggedInUser, orders, alert, open,
                 localStorage, sessionStorage, now, scene, draw, worker>>

\* the lookup ends in its catch block or error callback: setAutoError(message)
LookupFailed(t, message) ==
  /\ open[t] /\ ~IsNull(lookup[t].pending)
  /\ lookup' = [lookup EXCEPT ![t].autoError = message,
                              ![t].autoLoading = FALSE,
                              ![t].pending = NULL]
  /\ UNCHANGED <<form, result, deliveryCost, loggedInUser, orders, alert, open,
                 localStorage, sessionStorage, now, scene, draw, worker>>

\* the first of addr.parish, addr.state, addr.county, addr.region that
\* matches a parish, or null
ParishGuess(addr) ==
  LET tries == <<matchParishName(addr.parish), matchParishName(addr.state),
                 matchParishName(addr.county), matchParishName(addr.region)>>
      hits == {i \in 1..4 : ~IsNull(tries[i])}
  IN IF hits = {} THEN NULL ELSE tries[CHOOSE i \in hits : \A j \in hits : i <= j]

\* geocodeNominatimJM on the answer res of the service: the message of the
\* Error it throws ("" when it returns), else the first item; the place is
\* kept as its straight-line distance from the store
geocodeNominatimJM(res) ==
  IF ~res.ok
  THEN [error |-> "Geocode failed (" \o ToString(res.status) \o ")", straight |-> 0, parish |-> NULL]
  ELSE IF res.items = <<>>
  THEN [error |-> AddressLookupFailed, straight |-> 0, parish |-> NULL]
  ELSE [error |-> "", straight |-> res.items[1].straight,
        parish |-> ParishGuess(res.items[1].address)]

\* reverseGeocodeNominatimJM on the answer res of the service
reverseGeocodeNominatimJM(res) ==
  IF ~res.ok
  THEN [error |-> "Reverse geocode failed (" \o ToString(res.status) \o ")", parish |-> NULL]
  ELSE [error |-> "", parish |-> ParishGuess(res.address)]

\* x || "" for a text or null x
OrEmpty(x) == IF IsNull(x) THEN <<>> ELSE Val(x)

\* handleLookupFromAddress after the await: the geocoder answered res
AddressGeocoded(t, res) ==
  /\ ~IsNull(lookup[t].pending) /\ Val(lookup[t].pending).kind = "address"
  /\ LET geo == geocodeNominatimJM(res)
     IN IF geo.error # ""
        THEN LookupFailed(t, geo.error)
        ELSE LookupResolved(t, geo.straight, OrEmpty(geo.parish))

\* handleUseMyLocation, success callback: the position is `straight` from the
\* store and the reverse geocoder answered res; its failure is caught and
\* leaves the parish guess empty
PositionFound(t, straight, res) ==
  /\ ~IsNull(lookup[t].pending) /\ Val(lookup[t].pending).kind = "location"
  /\ LET rev == reverseGeocodeNominatimJM(res)
     IN LookupResolved(t, straight, IF rev.error # "" THEN <<>> ELSE OrEmpty(rev.parish))

\* handleUseMyLocation, error callback: err?.message || the default text
PositionRefused(t, message) ==
  /\ ~IsNull(lookup[t].pending) /\ Val(lookup[t].pending).kind = "location"
  /\ LookupFailed(t, IF message = "" THEN LocationLookupFailed ELSE message)

\* ---------------------------------------------------------------- scene
\* Positions are held in 1/MeterScale m, rotations in degrees, scales in 1/100.
\* scene[t].dragging says that the TransformControls of the selected object
\* has seen its mouse-down and not yet its mouse-up.
ScaleUnit == 100
FALLBACK_ROOM_M == 10

Min(a, b) == IF a <= b THEN a ELSE b

\* the assets of OBJECT_CATALOG
OBJECT_CATALOG == {"bed_queen", "nightstand", "wardrobe", "sofa_3", "coffee_tbl",
                   "kitchen_cab", "fridge", "toilet", "sink", "bathtub", "plant"}

\* convertToMeters(...) || 10
roomWm(f) ==
  LET m == convertToMeters(f.roomWidth, f.roomUnit)
  IN IF m # 0 THEN m ELSE FALLBACK_ROOM_M * MeterScale
roomLm(f) ==
  LET m == convertToMeters(f.roomLength, f.roomUnit)
  IN IF m # 0 THEN m ELSE FALLBACK_ROOM_M * MeterScale

floorSizeX(t) == IF scene[t].useRealScale THEN roomWm(form[t]) ELSE FALLBACK_ROOM_M * MeterScale
floorSizeY(t) == IF scene[t].useRealScale THEN roomLm(form[t]) ELSE FALLBACK_ROOM_M * MeterScale

clampToRoom(bounds, x, z) ==
  LET halfX == bounds.sizeX \div 2
      halfZ == bounds.sizeY \div 2
  IN <<Min(halfX, Max(0 - halfX, x)), Min(halfZ, Max(0 - halfZ, z))>>

\* { ...o, ...patch }
Patched(o, patch) == [k \in DOMAIN o |-> IF k \in DOMAIN patch THEN patch[k] ELSE o[k]]

updateObject(objects, id, patch) ==
  [i \in 1..Len(objects) |-> IF objects[i].id = id THEN Patched(objects[i], patch)
                              ELSE objects[i]]

RECURSIVE WithoutId(_, _)
\* prev.filter((o) => o.id !== id)
WithoutId(objects, id) ==
  IF objects = <<>> THEN <<>>
  ELSE IF Head(objects).id = id THEN WithoutId(Tail(objects), id)
  ELSE <<Head(objects)>> \o WithoutId(Tail(objects), id)

\* the patch handleChange reports for a group standing at g
handleChange(bounds, g) ==
  LET c == clampToRoom(bounds, g.x, g.z)
  IN [position |-> <<c[1], 0, c[2]>>, rotationY |-> g.rotationY, scale |-> Max(1, g.scale)]

\* the three.js group of object o as React renders it from the state
GroupOf(o) ==
  [x |-> o.position[1], z |-> o.position[3], rotationY |-> o.rotationY, scale |-> o.scale]

\* the objects whose SceneObject is wrapped in TransformControls
SelectedObjects(t) ==
  {i \in 1..Len(scene[t].objects) :
     Some(scene[t].objects[i].id) = scene[t].selectedObjectId}

SceneFrame ==
  UNCHANGED <<form, result, deliveryCost, lookup, loggedInUser, orders, alert, open,
              localStorage, sessionStorage, now, draw, worker>>

\* a catalog button: the new object stands in the middle and is selected
addObject(t, assetId, randomPart) ==
  /\ MainScreen(t)
  /\ Len(scene[t].objects) < MaxObjects
  /\ assetId \in OBJECT_CATALOG
  /\ LET id == <<"obj", now, randomPart>>
         newObj == [id |-> id, assetId |-> assetId, position |-> <<0, 0, 0>>,
                    rotationY |-> 0, scale |-> 1 * ScaleUnit]
     IN scene' = [scene EXCEPT ![t].objects = Append(@, newObj),
                               ![t].selectedObjectId = Some(id),
                               ![t].dragging = FALSE]
  /\ SceneFrame

\* the Remove button of a placed item; a gizmo that was held goes with the
\* TransformControls that is unmounted
removeObject(t, id) ==
  /\ MainScreen(t)
  /\ \E i \in 1..Len(scene[t].objects) : scene[t].objects[i].id = id
  /\ scene' = [scene EXCEPT
       ![t].objects = WithoutId(@, id),
       ![t].selectedObjectId = IF @ = Some(id) THEN NULL ELSE @,
       ![t].dragging = IF scene[t].selectedObjectId = Some(id) THEN FALSE ELSE @]
  /\ SceneFrame

\* a click on a placed item or on its list entry
SelectObject(t, id) ==
  /\ MainScreen(t)
  /\ \E i \in 1..Len(scene[t].objects) : scene[t].objects[i].id = id
  /\ scene' = [scene EXCEPT ![t].selectedObjectId = Some(id),
                            ![t].dragging = IF scene[t].selectedObjectId = Some(id)
                                            THEN @ ELSE FALSE]
  /\ SceneFrame

\* Canvas onPointerMissed: a click that hits no object
PointerMissed(t) ==
  /\ MainScreen(t)
  /\ scene' = [scene EXCEPT ![t].selectedObjectId = NULL, ![t].dragging = FALSE]
  /\ SceneFrame

\* TransformControls onMouseDown
TransformStart(t) ==
  /\ MainScreen(t)
  /\ SelectedObjects(t) # {}
  /\ ~scene[t].dragging
  /\ scene' = [scene EXCEPT ![t].orbitEnabled = FALSE, ![t].dragging = TRUE]
  /\ SceneFrame

\* TransformControls onChange while the gizmo is dragged: the group of the
\* i-th object stands at g
GizmoChange(t, i, g) ==
  /\ MainScreen(t)
  /\ i \in SelectedObjects(t)
  /\ scene[t].dragging
  /\ LET bounds == [sizeX |-> floorSizeX(t), sizeY |-> floorSizeY(t)]
     IN scene' = [scene EXCEPT ![t].objects =
                    updateObject(@, scene[t].objects[i].id, handleChange(bounds, g))]
  /\ SceneFrame

\* TransformControls onChange without a drag (the pointer moves over a handle)
GizmoHover(t, i) ==
  /\ MainScreen(t)
  /\ i \in SelectedObjects(t)
  /\ ~scene[t].dragging
  /\ LET bounds == [sizeX |-> floorSizeX(t), sizeY |-> floorSizeY(t)]
     IN scene' = [scene EXCEPT ![t].objects =
                    updateObject(@, scene[t].objects[i].id,
                                 handleChange(bounds, GroupOf(scene[t].objects[i])))]
  /\ SceneFrame

\* TransformControls onMouseUp: handleChange(), then onTransformEnd()
TransformEnd(t, i) ==
  /\ MainScreen(t)
  /\ i \in SelectedObjects(t)
  /\ scene[t].dragging
  /\ LET bounds == [sizeX |-> floorSizeX(t), sizeY |-> floorSizeY(t)]
     IN scene' = [scene EXCEPT
          ![t].objects = updateObject(@, scene[t].objects[i].id,
                                      handleChange(bounds, GroupOf(scene[t].objects[i]))),
          ![t].orbitEnabled = TRUE,
          ![t].dragging = FALSE]
  /\ SceneFrame

\* selectedObject: the first object with the selected id
selectedObject(t) ==
  scene[t].objects[CHOOSE i \in SelectedObjects(t) : \A j \in SelectedObjects(t) : i <= j]

\* the inputs of the property panel of the selected object
PanelEdit(t, field, text) ==
  /\ MainScreen(t)
  /\ SelectedObjects(t) # {}
  /\ LET o == selectedObject(t)
         v == parseFloat(text)
         orZero == IF Truthy(v) THEN v.val * Base ELSE 0
         patch ==
           CASE field = "x" -> [position |-> <<orZero, 0, o.position[3]>>]
             [] field = "z" -> [position |-> <<o.position[1], 0, orZero>>]
             [] field = "rotationY" -> [rotationY |-> IF Truthy(v) THEN v.val \div Scale ELSE 0]
             [] field = "scale" ->
                  [scale |-> IF Truthy(v) THEN v.val * (ScaleUnit \div Scale) ELSE 1 * ScaleUnit]
     IN scene' = [scene EXCEPT ![t].objects = updateObject(@, o.id, patch)]
  /\ SceneFrame

\* the radio buttons real scale / fixed scale
SetUseRealScale(t, value) ==
  /\ MainScreen(t)
  /\ scene' = [scene EXCEPT ![t].useRealScale = value]
  /\ SceneFrame

\* ------------------------------------------------------- worker events
WorkerFrame ==
  UNCHANGED <<form, result, deliveryCost, lookup, loggedInUser, orders, alert, open,
              localStorage, sessionStorage, now, scene, draw>>

\* the install event: caches.open(CACHE_NAME), then cache.addAll(urlsToCache).
\* addAll stores all responses or, when a request fails, none; the promise
\* handed to waitUntil then rejects and the worker is discarded.
InstallEvent(online) ==
  /\ worker.state = "installing"
  /\ worker' = [worker EXCEPT
       !.state = IF online THEN "activated" ELSE "redundant",
       !.caches = [name \in {CACHE_NAME} |->
                     IF online THEN addAll(urlsToCache, now) ELSE <<>>]]
  /\ WorkerFrame

\* the fetch event of an active worker:
\* respondWith(caches.match(request).then(response => response || fetch(request)))
FetchEvent(request, online) ==
  /\ worker.state = "activated"
  /\ LET response == cachesMatch(worker.caches, request)
     IN worker' = [worker EXCEPT !.respondedWith =
          IF ~IsNull(response)
          THEN Some([request |-> request, response |-> Val(response), network |-> FALSE])
          ELSE Some([request |-> request, network |-> TRUE,
                     response |-> IF online THEN NetworkResponse(request.url, now)
                                  ELSE NetworkError])]
  /\ WorkerFrame

\* ---------------------------------------------------------------- clock
\* Date.now() moves on by a millisecond
TickClock ==
  /\ now < MaxClock
  /\ now' = now + 1
  /\ UNCHANGED <<form, result, deliveryCost, lookup, loggedInUser, orders, alert, open,
                 localStorage, sessionStorage, scene, draw, worker>>

\* ---------------------------------------------------------------- mount
\* App is constructed in tab t over the storage the browser holds: the
\* useState initialisers run, then the mount effect
Mount(t, ss) ==
  /\ open' = [open EXCEPT ![t] = TRUE]
  /\ form' = [form EXCEPT ![t] = InitialForm]
  /\ result' = [result EXCEPT ![t] = NULL]
  /\ deliveryCost' = [deliveryCost EXCEPT ![t] = DeliveryCostEffect(InitialForm)]
  /\ lookup' = [lookup EXCEPT ![t] = InitialLookup]
  /\ orders' = [orders EXCEPT ![t] = StoredOrders(localStorage)]
  /\ localStorage' = SeedReps(localStorage)
  /\ sessionStorage' = [sessionStorage EXCEPT ![t] = ss]
  /\ loggedInUser' = [loggedInUser EXCEPT ![t] = StoredUser(localStorage, ss)]
  /\ alert' = [alert EXCEPT ![t] = ""]
  /\ scene' = [scene EXCEPT ![t] = InitialScene]
  /\ draw' = [draw EXCEPT ![t] = NULL]
  /\ UNCHANGED <<now, worker>>

\* the page is reloaded in an open tab (sessionStorage survives)
Reload(t) == open[t] /\ Mount(t, sessionStorage[t])

\* the app is opened in a new tab (a fresh sessionStorage)
OpenTab(t) == ~open[t] /\ Mount(t, EmptySessionStorage)

\* ------------------------------------------------------- typed inputs
\* what is typed into the inputs, character by character
Txt ==
  [empty |-> <<>>,
   abc |-> <<"a", "b", "c">>,
   blank |-> <<" ">>,
   n0 |-> <<"0">>,
   neg2 |-> <<"-", "2">>,
   neg5 |-> <<"-", "5">>,
   n0_3 |-> <<"0", ".", "3">>,
   n0_5 |-> <<"0", ".", "5">>,
   n2 |-> <<"2">>,
   n2_5 |-> <<"2", ".", "5">>,
   n4 |-> <<"4">>,
   n5 |-> <<"5">>,
   n5_1 |-> <<"5", ".", "1">>,
   n8 |-> <<"8">>,
   n10 |-> <<"1", "0">>,
   n12 |-> <<"1", "2">>,
   n12_5 |-> <<"1", "2", ".", "5">>,
   n25 |-> <<"2", "5">>,
   ann |-> <<"A", "n", "n">>,
   address |-> <<"H", "o", "p", "e", " ", "R", "d">>,
   phone |-> <<"5", "5", "5">>]

Units == {"m", "ft", "in"}
TileLengthInputs == {Txt.empty, Txt.abc, Txt.n0, Txt.neg2, Txt.n0_3, Txt.n12}
TileWidthInputs == {Txt.neg2, Txt.n0_3, Txt.n12}
RoomLengthInputs == {Txt.empty, Txt.abc, Txt.n0, Txt.neg2, Txt.n4, Txt.n10}
RoomWidthInputs == {Txt.abc, Txt.n5, Txt.n10}
PriceInputs == {Txt.empty, Txt.abc, Txt.n0, Txt.neg5, Txt.n2_5, Txt.n25}
MilesInputs == {Txt.empty, Txt.abc, Txt.n0, Txt.neg2, Txt.n0_5, Txt.n2, Txt.n5, Txt.n5_1, Txt.n8, Txt.n12_5}
DeliveryDraws ==
  {[deliveryMethod |-> "pickup", deliveryMiles |-> Txt.empty, isNewParish |-> FALSE],
   [deliveryMethod |-> "delivery", deliveryMiles |-> Txt.n8, isNewParish |-> FALSE],
   [deliveryMethod |-> "delivery", deliveryMiles |-> Txt.n2, isNewParish |-> TRUE]}

\* the tickets and order-id suffixes Math.random can produce
TicketSpace == {"TRU-AAAA-AAAA", "TRU-BBBB-BBBB", "TRU-CCCC-CCCC"}
RandomParts == {"AAAAA"}

\* the address object of a place whose parish the service reports as county
AddressOf(parishText) ==
  [parish |-> <<>>, state |-> <<>>, county |-> parishText, region |-> <<>>]

\* answers of the geocoding service: a non-success status, no results, a place
GeocodeAnswers(fixes) ==
  {[ok |-> FALSE, status |-> 500, items |-> <<>>], [ok |-> TRUE, status |-> 200, items |-> <<>>]}
  \cup {[ok |-> TRUE, status |-> 200,
          items |-> <<[straight |-> fix.straight, address |-> AddressOf(fix.parish)]>>] :
         fix \in fixes}

ReverseAnswers(fixes) ==
  {[ok |-> FALSE, status |-> 500, address |-> AddressOf(<<>>)]}
  \cup {[ok |-> TRUE, status |-> 200, address |-> AddressOf(fix.parish)] : fix \in fixes}

\* err.message of a refused or timed-out geolocation request ("" when absent)
PositionErrors == {"", "User denied Geolocation", "Timeout expired"}

\* order-id suffixes Math.random can produce when ids are compared
OrderIdParts == {"AAAAA", "BBBBB"}

\* what a lookup can bring back: the straight-line distance from the store in
\* tenths of a mile and the parish matched for the place (empty: none)
SessionFixes == {[straight |-> 64, parish |-> <<>>]}
GeoFixes ==
  {[straight |-> 64, parish |-> <<>>],
   [straight |-> 64, parish |-> StoreParish.SaintAndrew],
   [straight |-> 200, parish |-> StoreParish.SaintAnn],
   [straight |-> 16, parish |-> StoreParish.SaintAnn]}

\* the example quote of the calculator: 0.3 m x 0.3 m tiles at 25, a 4 m x 5 m
\* room, and 8 delivery miles entered before the method was set back to pickup
QuoteForm ==
  [InitialForm EXCEPT !.tileLength = Txt.n0_3, !.tileWidth = Txt.n0_3, !.tilePrice = Txt.n25,
                      !.roomLength = Txt.n4, !.roomWidth = Txt.n5, !.deliveryMiles = Txt.n8]

\* ------------------------------------------------------ specifications
\* Shared part of the initial states: the tabs of `live` are mounted on a
\* profile whose rep list is seeded and hold the default rep logged in
\* (not remembered), the other tabs are closed; forms[t] is what was typed.
PageInit(live, forms) ==
  /\ open = [t \in Tabs |-> t \in live]
  /\ form = forms
  /\ result = [t \in Tabs |-> NULL]
  /\ deliveryCost = [t \in Tabs |-> DeliveryCostEffect(forms[t])]
  /\ lookup = [t \in Tabs |-> InitialLookup]
  /\ loggedInUser = [t \in Tabs |-> IF t \in live THEN Some(defaultRep) ELSE NULL]
  /\ orders = [t \in Tabs |-> <<>>]
  /\ alert = [t \in Tabs |-> ""]
  /\ localStorage = SeedReps(EmptyStorage)
  /\ sessionStorage =
       [t \in Tabs |-> IF t \in live
                       THEN [loggedInUser |-> Some(StringifyRep(defaultRep))]
                       ELSE EmptySessionStorage]
  /\ now = 0
  /\ scene = [t \in Tabs |-> InitialScene]
  /\ draw = [t \in Tabs |-> NULL]

SessionInit(live, forms) == PageInit(live, forms) /\ worker = InstalledWorker

\* One session with the example quote typed in.
Init == SessionInit({1}, [t \in Tabs |-> IF t = 1 THEN QuoteForm ELSE InitialForm])

SessionInputs ==
  [deliveryMethod |-> {"pickup", "delivery"},
   customerName |-> {Txt.ann},
   customerPhone |-> {Txt.phone},
   username |-> {"rep1"},
   password |-> {"1234"}]

Next ==
  \E t \in {1} :
    \/ \E field \in DOMAIN SessionInputs : \E value \in SessionInputs[field] :
         EditField(t, field, value)
    \/ HandleCalculate(t)
    \/ \E randomPart \in RandomParts, ticket \in TicketSpace :
         HandlePlaceOrder(t, randomPart, ticket)
    \/ HandleLogin(t)
    \/ HandleLogout(t)
    \/ Reload(t)

Spec == Init /\ [][Next]_vars

\* One session without a reload, delivery selected: the operations of the
\* main screen and of the login screen, the distance lookup included.
InitLedger ==
  SessionInit({1}, [t \in Tabs |-> IF t = 1 THEN [QuoteForm EXCEPT !.deliveryMethod = "delivery"]
                                   ELSE InitialForm])

LedgerInputs ==
  [customerName |-> {Txt.ann},
   customerPhone |-> {Txt.phone},
   username |-> {"rep1"},
   password |-> {"1234"}]

NextLedger ==
  \E t \in {1} :
    \/ \E field \in DOMAIN LedgerInputs : \E value \in LedgerInputs[field] :
         EditField(t, field, value)
    \/ HandleCalculate(t)
    \/ \E randomPart \in RandomParts, ticket \in TicketSpace :
         HandlePlaceOrder(t, randomPart, ticket)
    \/ HandleUseMyLocation(t)
    \/ \E fix \in SessionFixes, res \in ReverseAnswers(SessionFixes) :
         PositionFound(t, fix.straight, res)
    \/ PositionRefused(t, "")
    \/ HandleLogin(t)
    \/ HandleLogout(t)

SpecLedger == InitLedger /\ [][NextLedger]_vars

\* One session that edits the price and the room between calculating and
\* placing orders.
OrderInputs ==
  [customerName |-> {Txt.ann},
   customerPhone |-> {Txt.phone},
   tilePrice |-> {Txt.n25, Txt.n2_5},
   roomLength |-> {Txt.n4, Txt.n10}]

NextOrder ==
  \/ \E field \in DOMAIN OrderInputs : \E value \in OrderInputs[field] :
       EditField(1, field, value)
  \/ HandleCalculate(1)
  \/ \E randomPart \in RandomParts, ticket \in {"TRU-AAAA-AAAA", "TRU-BBBB-BBBB"} :
       HandlePlaceOrder(1, randomPart, ticket)

SpecOrder == InitLedger /\ [][NextOrder]_vars

\* One session that edits the delivery inputs between calculating and
\* placing orders.
DeliveryInputs ==
  [customerName |-> {Txt.ann},
   customerPhone |-> {Txt.phone},
   deliveryMethod |-> {"pickup", "delivery"},
   deliveryMiles |-> {Txt.n0, Txt.n8}]

NextDelivery ==
  \/ \E field \in DOMAIN DeliveryInputs : \E value \in DeliveryInputs[field] :
       EditField(1, field, value)
  \/ HandleCalculate(1)
  \/ \E randomPart \in RandomParts, ticket \in {"TRU-AAAA-AAAA", "TRU-BBBB-BBBB"} :
       HandlePlaceOrder(1, randomPart, ticket)

SpecDelivery == InitLedger /\ [][NextDelivery]_vars

\* One session in which a rep registers under a name typed as a single
\* blank, logs in, and places orders for customers typed with and without a name.
PlaceInputs ==
  [customerName |-> {Txt.ann, Txt.blank},
   customerPhone |-> {Txt.phone},
   username |-> {"sam"},
   password |-> {"pw"},
   name |-> {" "},
   employeeId |-> {"EMP002"}]

NextPlace ==
  \/ \E field \in DOMAIN PlaceInputs : \E value \in PlaceInputs[field] :
       EditField(1, field, value)
  \/ ToggleRegistering(1)
  \/ HandleRegister(1)
  \/ HandleLogin(1)
  \/ HandleLogout(1)
  \/ HandleCalculate(1)
  \/ \E randomPart \in RandomParts, ticket \in {"TRU-AAAA-AAAA", "TRU-BBBB-BBBB"} :
       HandlePlaceOrder(1, randomPart, ticket)

SpecPlace == InitLedger /\ [][NextPlace]_vars

\* The calculator over drawn inputs: every combination of tile and room
\* dimensions, units and delivery settings; the price is typed afterwards.
InitCalc ==
  \E tl \in TileLengthInputs, tw \in TileWidthInputs, tu \in Units,
     rl \in RoomLengthInputs, rw \in RoomWidthInputs, ru \in Units,
     d \in DeliveryDraws :
    SessionInit({1},
      [t \in Tabs |->
         IF t = 1
         THEN [InitialForm EXCEPT !.tileLength = tl, !.tileWidth = tw, !.tileUnit = tu,
                                  !.roomLength = rl, !.roomWidth = rw, !.roomUnit = ru,
                                  !.deliveryMethod = d.deliveryMethod,
                                  !.deliveryMiles = d.deliveryMiles,
                                  !.isNewParish = d.isNewParish]
         ELSE InitialForm])

NextCalc ==
  \/ \E value \in PriceInputs : EditField(1, "tilePrice", value)
  \/ HandleCalculate(1)

SpecCalc == InitCalc /\ [][NextCalc]_vars

\* The delivery quote: the example quote with the delivery inputs edited.
QuoteInputs ==
  [deliveryMethod |-> {"pickup", "delivery"},
   deliveryMiles |-> MilesInputs,
   isNewParish |-> {TRUE, FALSE},
   selectedStoreId |-> {"KNG", "OCH"}]

InitQuote ==
  SessionInit({1}, [t \in Tabs |-> IF t = 1 THEN [QuoteForm EXCEPT !.customerAddress = Txt.address]
                                   ELSE InitialForm])

NextQuote ==
  \/ \E field \in DOMAIN QuoteInputs : \E value \in QuoteInputs[field] :
       EditField(1, field, value)
  \/ HandleLookupFromAddress(1)
  \/ HandleUseMyLocation(1)
  \/ \E res \in GeocodeAnswers(GeoFixes) : AddressGeocoded(1, res)
  \/ \E fix \in GeoFixes : \E res \in ReverseAnswers({fix}) :
       PositionFound(1, fix.straight, res)
  \/ \E message \in PositionErrors : PositionRefused(1, message)

SpecQuote == InitQuote /\ [][NextQuote]_vars

\* The two lookups of one session and their outcomes. The awaited promise of
\* a pending lookup settles and the geolocation request calls one of its
\* callbacks (it is given a timeout of 12 s): a pending lookup is completed
\* in the end.
LookupFixes ==
  {[straight |-> 64, parish |-> <<>>], [straight |-> 200, parish |-> StoreParish.SaintAnn]}

LookupSettles ==
  \/ \E res \in GeocodeAnswers(LookupFixes) : AddressGeocoded(1, res)
  \/ \E fix \in LookupFixes : \E res \in ReverseAnswers({fix}) :
       PositionFound(1, fix.straight, res)
  \/ \E message \in PositionErrors : PositionRefused(1, message)

NextLookup ==
  \/ \E value \in {"pickup", "delivery"} : EditField(1, "deliveryMethod", value)
  \/ \E value \in {"KNG", "OCH"} : EditField(1, "selectedStoreId", value)
  \/ HandleLookupFromAddress(1)
  \/ HandleUseMyLocation(1)
  \/ LookupSettles

SpecLookupFair == InitQuote /\ [][NextLookup]_vars /\ WF_vars(LookupSettles)

\* Two tabs on one profile, each with the example quote and a customer typed in.
InitTabs ==
  SessionInit(Tabs, [t \in Tabs |-> [QuoteForm EXCEPT !.customerName = Txt.ann,
                                                      !.customerPhone = Txt.phone]])

TabsInputs == [customerName |-> {Txt.ann}, customerPhone |-> {Txt.phone}]

NextTabs ==
  \E t \in Tabs :
    \/ \E field \in DOMAIN TabsInputs : \E value \in TabsInputs[field] :
         EditField(t, field, value)
    \/ HandleCalculate(t)
    \/ \E randomPart \in RandomParts, ticket \in TicketSpace :
         HandlePlaceOrder(t, randomPart, ticket)
    \/ Reload(t)

SpecTabs == InitTabs /\ [][NextTabs]_vars

\* Two tabs on one profile that log in, with and without remember-me, log
\* out and reload.
RememberInputs ==
  [username |-> {"rep1"}, password |-> {"1234"}, rememberMe |-> {TRUE, FALSE}]

NextRemember ==
  \E t \in Tabs :
    \/ \E field \in DOMAIN RememberInputs : \E value \in RememberInputs[field] :
         EditField(t, field, value)
    \/ HandleLogin(t)
    \/ HandleLogout(t)
    \/ Reload(t)

SpecRemember == InitTabs /\ [][NextRemember]_vars

\* The login screen of one session: registration, login, logout and reload.
AuthInputs ==
  [username |-> {"rep1", "ann", "bob"},
   password |-> {"1234", "pw"},
   name |-> {"Ann"},
   employeeId |-> {"EMP002"},
   rememberMe |-> {TRUE, FALSE}]

NextAuth ==
  \E t \in {1} :
    \/ \E field \in DOMAIN AuthInputs : \E value \in AuthInputs[field] :
         EditField(t, field, value)
    \/ ToggleRegistering(t)
    \/ HandleRegister(t)
    \/ HandleLogin(t)
    \/ HandleLogout(t)
    \/ Reload(t)

SpecAuth == Init /\ [][NextAuth]_vars

\* One session placing orders while the clock runs.
InitIds ==
  SessionInit({1}, [t \in Tabs |-> IF t = 1 THEN [QuoteForm EXCEPT !.customerName = Txt.ann,
                                                                   !.customerPhone = Txt.phone]
                                   ELSE InitialForm])

NextIds ==
  \/ \E field \in DOMAIN TabsInputs : \E value \in TabsInputs[field] :
       EditField(1, field, value)
  \/ HandleCalculate(1)
  \/ \E randomPart \in OrderIdParts, ticket \in TicketSpace :
       HandlePlaceOrder(1, randomPart, ticket)
  \/ TickClock

SpecIds == InitIds /\ [][NextIds]_vars

\* One session whose my-location lookups are answered with a parish name in
\* one of its spellings, or with a text that names no parish.
UpperChar(c) ==
  IF c \in Range(LowerCase) THEN UpperCase[CHOOSE i \in 1..26 : LowerCase[i] = c] ELSE c
toUpperCase(s) == [i \in 1..Len(s) |-> UpperChar(s[i])]

SaintWord == <<"S", "a", "i", "n", "t", " ">>
ParishWord == <<" ", "P", "a", "r", "i", "s", "h">>

\* the spellings of the canonical parish name p: any case, with or without
\* the word Parish, St. or St for Saint
Spellings(p) ==
  LET cased(q) == {q, toLowerCase(q), toUpperCase(q)}
      suffixed(q) == {q, q \o ParishWord, toLowerCase(q \o ParishWord)}
      saint == Len(p) > 6 /\ SubSeq(p, 1, 6) = SaintWord
      rest == SubSeq(p, 7, Len(p))
      bases == {p} \cup (IF saint THEN {<<"S", "t", ".", " ">> \o rest, <<"S", "t", " ">> \o rest}
                         ELSE {})
  IN UNION {UNION {cased(q) : q \in suffixed(b)} : b \in bases}

NoParishTexts == {Txt.abc, Txt.address}
ParishTexts ==
  UNION {Spellings(JAMAICA_PARISHES[i]) : i \in 1..Len(JAMAICA_PARISHES)} \cup NoParishTexts

ParishAnswer(text) == [ok |-> TRUE, status |-> 200, address |-> AddressOf(text)]

NextParish ==
  \/ \E value \in {"KNG", "OCH"} : EditField(1, "selectedStoreId", value)
  \/ \E value \in {"pickup", "delivery"} : EditField(1, "deliveryMethod", value)
  \/ HandleUseMyLocation(1)
  \/ \E text \in ParishTexts : PositionFound(1, 64, ParishAnswer(text))

SpecParish == InitQuote /\ [][NextParish]_vars

\* Orders placed in one session, the ticket loop taken draw by draw. Math.random
\* is fair: a value it can produce is not withheld forever.
TicketInputs ==
  [customerName |-> {Txt.ann},
   customerPhone |-> {Txt.phone},
   tilePrice |-> {Txt.n25, Txt.n2_5}]

NextTicket ==
  \E t \in {1} :
    \/ \E field \in DOMAIN TicketInputs : \E value \in TicketInputs[field] :
         ~InLoop(t) /\ EditField(t, field, value)
    \/ ~InLoop(t) /\ HandleCalculate(t)
    \/ \E randomPart \in RandomParts : PlaceOrderBegins(t, randomPart)
    \/ \E ticket \in TicketValues : TicketDrawn(t, ticket)

SpecTicket == InitLedger /\ [][NextTicket]_vars
SpecTicketFair == SpecTicket /\ \A ticket \in TicketValues : WF_vars(TicketDrawn(1, ticket))

\* The service worker from its install event on, while the content of the
\* server moves on: requests for the two cached urls, for a url with a query,
\* for other files, and POST requests, with the network up or down.
WorkerRequests ==
  [url : {"/", "/index.html", "/?v=2", "/app.js", "/manifest.json"}, method : {"GET", "POST"}]

InitWorker ==
  PageInit({1}, [t \in Tabs |-> InitialForm]) /\ worker = RegisteredWorker

NextWorker ==
  \/ \E online \in BOOLEAN : InstallEvent(online)
  \/ \E request \in WorkerRequests, online \in BOOLEAN : FetchEvent(request, online)
  \/ TickClock

SpecWorker == InitWorker /\ [][NextWorker]_vars

\* The 3D scene of one session in the 4 m x 5 m room of the example quote:
\* catalog buttons, the list of placed items, the gizmo of the selected item,
\* its property panel and the room inputs.
\* A gizmo can be dragged out of the room and scaled down to nothing.
GizmoPoses ==
  {[x |-> 1 * MeterScale, z |-> 0, rotationY |-> 0, scale |-> 1 * ScaleUnit],
   [x |-> 30 * MeterScale, z |-> 0 - 30 * MeterScale, rotationY |-> 90, scale |-> 0]}

PanelInputs ==
  [x |-> {Txt.n12, Txt.abc},
   z |-> {Txt.neg2},
   rotationY |-> {Txt.n25},
   scale |-> {Txt.n0_5}]

SceneInputs ==
  [roomWidth |-> {Txt.n5, Txt.n2, Txt.abc}]

ObjectIds(t) == {scene[t].objects[i].id : i \in 1..Len(scene[t].objects)}

\* the pointer is released over the gizmo that was held
MouseUp(t) == \E i \in SelectedObjects(t) : TransformEnd(t, i)

NextScene ==
  \E t \in {1} :
    \/ \E assetId \in {"sofa_3", "plant"}, randomPart \in RandomParts :
         addObject(t, assetId, randomPart)
    \/ \E id \in ObjectIds(t) : removeObject(t, id)
    \/ \E id \in ObjectIds(t) : SelectObject(t, id)
    \/ PointerMissed(t)
    \/ TransformStart(t)
    \/ \E i \in SelectedObjects(t), g \in GizmoPoses : GizmoChange(t, i, g)
    \/ \E i \in SelectedObjects(t) : GizmoHover(t, i)
    \/ MouseUp(t)
    \/ \E field \in DOMAIN PanelInputs : \E text \in PanelInputs[field] :
         PanelEdit(t, field, text)
    \/ \E value \in {TRUE, FALSE} : SetUseRealScale(t, value)
    \/ \E field \in DOMAIN SceneInputs : \E value \in SceneInputs[field] :
         EditField(t, field, value)

SpecScene == Init /\ [][NextScene]_vars

\* A held mouse button is released sooner or later; the release reaches the
\* gizmo as long as its TransformControls is mounted.
SpecSceneFair == SpecScene /\ WF_vars(MouseUp(1))

\* ------------------------------------------------------------ properties
\* what the specification calls a valid numeric input: a positive number
PositiveInput(text) == ~isNaN(parseFloat(text)) /\ parseFloat(text).val > 0

ValidCalcInputs(f) ==
  /\ PositiveInput(f.tileLength) /\ PositiveInput(f.tileWidth)
  /\ PositiveInput(f.roomLength) /\ PositiveInput(f.roomWidth)
  /\ PositiveInput(f.tilePrice)
  /\ f.tileUnit \in Units /\ f.roomUnit \in Units

\* meters per unit, in 1/Base
MetersPerUnit(unit) ==
  CASE unit = "m" -> Base [] unit = "ft" -> FT_TO_M [] unit = "in" -> IN_TO_M

\* the area length x width, given in `unit`, in square meters (1/MeterScale^2 m2)
AreaM2(length, width, unit) ==
  BigMul(BigOfInt(parseFloat(length).val * MetersPerUnit(unit)),
         BigOfInt(parseFloat(width).val * MetersPerUnit(unit)))

\* n = ceiling(num / den): n - 1 < num / den <= n
IsCeilingOf(n, num, den) ==
  /\ n >= 0
  /\ BigLeq(num, BigMul(den, BigOfInt(n)))
  /\ n > 0 => BigLess(BigMul(den, BigOfInt(n - 1)), num)

Money(dollars) == dollars * Scale

CalcAlert == "Please enter all values correctly"

C2_ThinsetBagsIsCeiling ==
  [][\A t \in Tabs :
       (HandleCalculate(t) /\ ValidCalcInputs(form[t])) =>
         /\ ~IsNull(result'[t])
         /\ LET r == Val(result'[t])
                sqft == BigMul(AreaM2(form[t].roomLength, form[t].roomWidth, form[t].roomUnit),
                               BigOfInt(SQFT_PER_M2))
            IN /\ r.roomAreaSqFt = sqft
               /\ IsCeilingOf(r.thinsetBags, sqft, BigMul(BigOfInt(50), SqFtOne))
               /\ r.thinsetCost = Money(r.thinsetBags * 1500)]_vars

\* a 20 m2 room was calculated: 5 bags at 1500
C2_Witness ==
  /\ form[1].roomLength = Txt.n4 /\ form[1].roomWidth = Txt.n5 /\ form[1].roomUnit = "m"
  /\ ~IsNull(result[1])
  /\ Val(result[1]).thinsetBags = 5
  /\ Val(result[1]).thinsetCost = Money(7500)

\* the displayed quote of a within-parish delivery whose miles input is a number
InParishQuote(t) ==
  /\ MainScreen(t)
  /\ form[t].deliveryMethod = "delivery" /\ ~form[t].isNewParish
  /\ ~isNaN(parseFloat(form[t].deliveryMiles))

\* C3 as stated: within-parish delivery costs exactly 1500 for every miles
\* input of at most 5 and 1500 + (miles - 5) * 250 above 5.
C3_AsStated ==
  \A t \in Tabs : InParishQuote(t) =>
    LET miles == parseFloat(form[t].deliveryMiles).val
    IN deliveryCost[t] = IF miles <= 5 * Scale THEN Money(1500)
                         ELSE Money(1500) + (miles - 5 * Scale) * 250

\* C3 (amended): within-parish delivery costs exactly 1500 for every miles
\* input greater than 0 and at most 5, 1500 + (miles - 5) * 250 above 5, and
\* 0 for a miles input of 0 or less.
C3_InParishCost ==
  \A t \in Tabs : InParishQuote(t) =>
    LET miles == parseFloat(form[t].deliveryMiles).val
    IN deliveryCost[t] = IF miles <= 0 THEN 0
                         ELSE IF miles <= 5 * Scale THEN Money(1500)
                         ELSE Money(1500) + (miles - 5 * Scale) * 250

\* 12.5 miles typed for a delivery within the parish are quoted 3375
C3_Witness ==
  /\ InParishQuote(1)
  /\ form[1].deliveryMiles = Txt.n12_5
  /\ deliveryCost[1] = Money(3375)

\* C4: new-parish delivery costs 3500 + miles * 450 for every non-negative
\* miles input, and pickup costs 0 whatever the miles and the flag are.
C4_NewParishAndPickupCost ==
  \A t \in Tabs : MainScreen(t) =>
    LET miles == parseFloat(form[t].deliveryMiles)
    IN /\ (form[t].deliveryMethod = "delivery" /\ form[t].isNewParish
             /\ ~isNaN(miles) /\ miles.val >= 0)
          => deliveryCost[t] = Money(3500) + miles.val * 450
       /\ form[t].deliveryMethod = "pickup" => deliveryCost[t] = 0

\* 2 miles inside a new parish are quoted 4400
C4_Witness ==
  /\ MainScreen(1)
  /\ form[1].deliveryMethod = "delivery" /\ form[1].isNewParish
  /\ form[1].deliveryMiles = Txt.n2
  /\ deliveryCost[1] = Money(4400)

\* C5: in every calculator result and in every order of the ledger (in
\* memory and persisted), grandTotal = tile cost + thinset cost + delivery
\* cost of that same record.
C5_GrandTotalIsSum ==
  /\ \A t \in Tabs : ~IsNull(result[t]) =>
       LET r == Val(result[t])
       IN r.grandTotal = r.totalCost + r.thinsetCost + r.delivery.cost
  /\ \A t \in Tabs : \A i \in 1..Len(orders[t]) :
       LET o == orders[t][i]
       IN o.grandTotal = o.totalCost + o.thinset.cost + o.delivery.cost
  /\ \A i \in 1..Len(StoredOrders(localStorage)) :
       LET o == StoredOrders(localStorage)[i]
       IN o.grandTotal = o.totalCost + o.thinset.cost + o.delivery.cost

\* an order with a tile cost, a thinset cost and a delivery cost is persisted
C5_Witness ==
  \E i \in 1..Len(StoredOrders(localStorage)) :
    LET o == StoredOrders(localStorage)[i]
    IN /\ o.totalCost > 0 /\ o.thinset.cost > 0 /\ o.delivery.cost > 0
       /\ o.grandTotal = o.totalCost + o.thinset.cost + o.delivery.cost

\* C6: handleCalculate alerts and leaves the stored result unchanged whenever
\* one of tile length, tile width, tile price, room length or room width is
\* missing, non-numeric or non-positive.
C6_RejectsInvalidInput ==
  [][\A t \in Tabs :
       (HandleCalculate(t) /\ ~ValidCalcInputs(form[t])) =>
         (alert'[t] = CalcAlert /\ result'[t] = result[t])]_vars

\* C7: the ticket numbers of the orders in the persisted ledger are pairwise
\* distinct.
C7_StoredTicketsDistinct ==
  LET stored == StoredOrders(localStorage)
  IN \A i, j \in 1..Len(stored) :
       stored[i].ticketNumber = stored[j].ticketNumber => i = j

IsPrefix(a, b) == Len(a) <= Len(b) /\ SubSeq(b, 1, Len(a)) = a

\* C8: the ledger of a session is append-only: every step keeps the orders
\* already listed, in place and unchanged, in memory and in localStorage, and
\* a successful handlePlaceOrder appends exactly one order at the end.
C8_LedgerAppendOnly ==
  [][\A t \in Tabs :
       /\ IsPrefix(orders[t], orders'[t])
       /\ \/ localStorage'.orders = localStorage.orders
          \/ IsPrefix(StoredOrders(localStorage), StoredOrders(localStorage'))
       /\ Len(orders'[t]) <= Len(orders[t]) + 1
       /\ (/\ PlaceOrderAlert(t) = ""
           /\ \E rp \in RandomParts, tk \in TicketSpace : HandlePlaceOrder(t, rp, tk))
          => /\ Len(orders'[t]) = Len(orders[t]) + 1
             /\ orders'[t][Len(orders'[t])].customer.name = Trim(form[t].customerName)]_vars

\* two orders were placed one after the other
C8_Witness == Len(orders[1]) = 2 /\ Len(StoredOrders(localStorage)) = 2

\* C9: no order written to the persisted list is lost by a later step.
C9_NoStoredOrderLost ==
  [][\A o \in Range(StoredOrders(localStorage)) :
       o \in Range(StoredOrders(localStorage'))]_vars

\* C10: in a session the order list read back from localStorage key "orders"
\* equals the in-memory list, after the start, after every placed order and
\* after a reload.
C10_StoredEqualsInMemory ==
  \A t \in Tabs : open[t] => StoredOrders(localStorage) = orders[t]

\* the page was reloaded (the form is empty again) with two orders placed before
C10_Witness ==
  /\ form[1].tileLength = Txt.empty
  /\ Len(orders[1]) = 2
  /\ StoredOrders(localStorage) = orders[1]

\* C11: no two orders of the ledger, in memory or persisted, have the same
\* orderId, orders placed within the same clock tick included.
C11_OrderIdsDistinct ==
  /\ \A t \in Tabs : \A i, j \in 1..Len(orders[t]) :
       orders[t][i].orderId = orders[t][j].orderId => i = j
  /\ LET stored == StoredOrders(localStorage)
     IN \A i, j \in 1..Len(stored) : stored[i].orderId = stored[j].orderId => i = j

\* a lookup of tab t completed with a detected parish in this step
LookupCompletedWithParish(t) ==
  /\ ~IsNull(lookup[t].pending) /\ IsNull(lookup'[t].pending)
  /\ lookup'[t].autoError = ""
  /\ lookup'[t].detectedParish # <<>>

\* x in 1/unit, rounded to the nearest tenth
RoundToTenths(x, unit) == CHOOSE n \in 0..((x * Scale) \div unit + 1) :
                            /\ 2 * n * unit <= 2 * x * Scale + unit
                            /\ 2 * x * Scale + unit < 2 * (n + 1) * unit

\* the miles input and the flag after a completed lookup, `inside` being the
\* miles wanted when the detected parish is not the one of `store`
LookupOutcomeIs(t, store, inside) ==
  LET d == lookup'[t].autoTotalMiles
      miles == parseFloat(form'[t].deliveryMiles)
  IN IF lookup'[t].detectedParish # store.parish
     THEN form'[t].isNewParish /\ ~isNaN(miles) /\ miles.val = inside
     ELSE ~form'[t].isNewParish /\ ~isNaN(miles) /\ miles.val = RoundToTenths(d, MilesUnit)

\* C12 as stated: a lookup completed with a detected parish sets the flag and
\* 30% of the distance when the parish differs from the selected store's,
\* and clears the flag and sets the full distance otherwise.
C12_AsStated ==
  [][\A t \in Tabs : LookupCompletedWithParish(t) =>
       LookupOutcomeIs(t, selectedStore(form[t]),
                       RoundToTenths(3 * lookup'[t].autoTotalMiles, MilesUnit * Scale))]_vars

\* C12 (amended): the store is the one selected when the lookup was started,
\* and the 30% estimate is never less than 1 mile.
C12_LookupSetsFlagAndMiles ==
  [][\A t \in Tabs : LookupCompletedWithParish(t) =>
       LookupOutcomeIs(t, Val(lookup[t].pending).store,
                       Max(1 * Scale,
                           RoundToTenths(3 * lookup'[t].autoTotalMiles, MilesUnit * Scale)))]_vars

\* a 25 mile trip from the Kingston store ended in Saint Ann: flag set, 7.5 miles
C12_Witness ==
  /\ lookup[1].autoTotalMiles = 25 * MilesUnit
  /\ lookup[1].detectedParish = StoreParish.SaintAnn
  /\ IsNull(lookup[1].pending)
  /\ form[1].selectedStoreId = "KNG"
  /\ form[1].isNewParish /\ form[1].deliveryMiles = <<"7", ".", "5">>

\* the lookup of tab t has ended with the error flag holding message
LookupEndedWithError(t, message) ==
  /\ IsNull(lookup'[t].pending) /\ ~lookup'[t].autoLoading
  /\ lookup'[t].autoError = message

\* the address lookup surfaces the message of a failed forward geocoding
AddressErrorSurfaced(t) ==
  \A res \in GeocodeAnswers(GeoFixes) :
    ((~res.ok \/ res.items = <<>>) /\ AddressGeocoded(t, res))
      => LookupEndedWithError(t, geocodeNominatimJM(res).error)

StoredUsernamesDistinct(ls) ==
  \A i, j \in 1..Len(StoredReps(ls)) :
    StoredReps(ls)[i].username = StoredReps(ls)[j].username => i = j

\* C14: a registration under a username that is already stored is blocked
\* and leaves the stored sales-rep list unchanged; the stored usernames stay
\* pairwise distinct and no stored rep record is changed or removed.
C14_RegistrationKeepsReps ==
  [][\A t \in Tabs :
       /\ (HandleRegister(t) /\ form[t].username # ""
             /\ \E i \in 1..Len(StoredReps(localStorage)) :
                   StoredReps(localStorage)[i].username = form[t].username)
           => /\ localStorage' = localStorage
              /\ alert'[t] \in {"Username already exists", "Please fill in all fields"}
       /\ \/ localStorage'.salesReps = localStorage.salesReps
          \/ /\ IsPrefix(StoredReps(localStorage), StoredReps(localStorage'))
             /\ StoredUsernamesDistinct(localStorage')]_vars

\* a second rep was registered and a registration under its name was blocked
C14_Witness ==
  /\ Len(StoredReps(localStorage)) >= 2
  /\ StoredUsernamesDistinct(localStorage)
  /\ alert[1] = "Username already exists"

\* the stored reps that carry exactly the entered username and password
MatchingReps(t) ==
  {r \in Range(StoredReps(localStorage)) :
     r.username = form[t].username /\ r.password = form[t].password}

\* C15: handleLogin sets the logged-in user exactly when some stored rep has
\* the entered username and password, and then to that rep; a failed login
\* leaves the logged-in user, localStorage and sessionStorage unchanged.
C15_LoginIffStoredRep ==
  [][\A t \in Tabs :
       HandleLogin(t) =>
         IF MatchingReps(t) # {}
         THEN /\ ~IsNull(loggedInUser'[t])
              /\ Val(loggedInUser'[t]) \in MatchingReps(t)
         ELSE /\ loggedInUser' = loggedInUser
              /\ IsNull(loggedInUser'[t])
              /\ localStorage' = localStorage
              /\ sessionStorage' = sessionStorage]_vars

\* a registered rep is logged in, after a login attempt that failed
C15_Witness ==
  /\ ~IsNull(loggedInUser[1])
  /\ Val(loggedInUser[1]).username = "ann"
  /\ Val(loggedInUser[1]).password = "pw"

\* C16: in every settled state of the UI the displayed deliveryCost equals
\* computeDeliveryCost(deliveryMethod, deliveryMiles, isNewParish) of the
\* current inputs, whether the user or a completed lookup changed them.
C16_DeliveryCostInSync ==
  \A t \in Tabs : open[t] =>
    deliveryCost[t] = computeDeliveryCost(form[t].deliveryMethod, form[t].deliveryMiles,
                                          form[t].isNewParish)

\* a completed lookup set the flag and 7.5 miles: the quote shows 6875
C16_Witness ==
  /\ IsNull(lookup[1].pending) /\ lookup[1].autoTotalMiles = 25 * MilesUnit
  /\ form[1].deliveryMethod = "delivery"
  /\ form[1].isNewParish /\ form[1].deliveryMiles = <<"7", ".", "5">>
  /\ deliveryCost[1] = Money(6875)

\* C17: matchParishName maps every spelling of the 14 parishes (any case, an
\* optional Parish suffix, St. or St for Saint) to the canonical entry, and a
\* text that names no parish to null: the parish a lookup detects from the
\* answered text is the canonical one, or none.
C17_SpellingsMatched ==
  [][(~IsNull(lookup[1].pending) /\ IsNull(lookup'[1].pending)) =>
       /\ \A i \in 1..Len(JAMAICA_PARISHES) : \A text \in Spellings(JAMAICA_PARISHES[i]) :
            PositionFound(1, 64, ParishAnswer(text))
              => lookup'[1].detectedParish = JAMAICA_PARISHES[i]
       /\ \A text \in NoParishTexts :
            PositionFound(1, 64, ParishAnswer(text)) => lookup'[1].detectedParish = <<>>]_vars

\* C18: convertToMeters takes 1 ft as 0.3048 m and 1 in as 0.0254 m and leaves
\* meters unchanged, and yields 0 for a missing, non-numeric or non-positive
\* value: a calculation with such a dimension is refused, and otherwise the
\* room area of the result is the product of the converted room sides.
C18_ConvertToMeters ==
  [][\A t \in Tabs :
       HandleCalculate(t) =>
         LET f == form[t]
         IN IF \E text \in {f.tileLength, f.tileWidth, f.roomLength, f.roomWidth} :
                 ~PositiveInput(text)
            THEN result' = result /\ alert'[t] = CalcAlert
            ELSE PositiveInput(f.tilePrice) =>
                   /\ ~IsNull(result'[t])
                   /\ Val(result'[t]).roomAreaM2 =
                        BigMul(BigOfInt(parseFloat(f.roomLength).val * MetersPerUnit(f.roomUnit)),
                               BigOfInt(parseFloat(f.roomWidth).val * MetersPerUnit(f.roomUnit)))]_vars

\* a 10 ft x 10 ft room was calculated as 3.048 m x 3.048 m
C18_Witness ==
  /\ form[1].roomLength = Txt.n10 /\ form[1].roomWidth = Txt.n10 /\ form[1].roomUnit = "ft"
  /\ ~IsNull(result[1])
  /\ Val(result[1]).roomAreaM2 = BigMul(BigOfInt(3048 * (MeterScale \div 1000)), BigOfInt(3048 * (MeterScale \div 1000)))

\* C19: every lookup that sets the loading flag clears the previous error
\* text when it starts, and the loading flag is cleared in the end, whether
\* the lookup succeeds, geocoding fails or geolocation is denied or times out.
C19_LoadingFlagCleared ==
  /\ [][\A t \in Tabs :
          (~lookup[t].autoLoading /\ lookup'[t].autoLoading) => lookup'[t].autoError = ""]_vars
  /\ \A t \in Tabs : lookup[t].autoLoading ~> ~lookup[t].autoLoading

\* a my-location lookup has ended on a timeout of the geolocation request
C19_Witness ==
  /\ ~lookup[1].autoLoading /\ IsNull(lookup[1].pending)
  /\ lookup[1].autoError = "Timeout expired"

\* the tile count and tile cost of order o fit the dimensions and the price
\* recorded in o
OrderConsistent(o) ==
  /\ IsCeilingOf(o.tilesNeeded,
                 AreaM2(o.roomDimensions.length, o.roomDimensions.width, o.roomDimensions.unit),
                 AreaM2(o.tileDimensions.length, o.tileDimensions.width, o.tileDimensions.unit))
  /\ o.totalCost = o.tilesNeeded * parseFloat(o.tilePrice).val

\* C20: in every stored order, tilesNeeded is the ceiling of the recorded
\* room area over the recorded tile area and totalCost is tilesNeeded times
\* the recorded tilePrice, for any sequence of edits, calculations and
\* placed orders.
C20_OrdersConsistent ==
  /\ \A t \in Tabs : \A i \in 1..Len(orders[t]) : OrderConsistent(orders[t][i])
  /\ \A i \in 1..Len(StoredOrders(localStorage)) :
       OrderConsistent(StoredOrders(localStorage)[i])

\* order o is not a within-parish delivery without mileage
HasMileage(o) ==
  (o.delivery.method = "delivery" /\ ~o.delivery.isNewParish)
    => o.delivery.miles > 0 /\ o.delivery.cost >= Money(1500)

\* C21: every order of the ledger whose delivery is within the parish has
\* delivery.miles > 0 and delivery.cost >= 1500, and the delivery sub-record
\* of an order equals the delivery method, miles and new-parish flag that
\* were current when the order was placed.
C21_DeliveryRecorded ==
  /\ [](\A t \in Tabs : \A i \in 1..Len(orders[t]) : HasMileage(orders[t][i]))
  /\ [][\A t \in Tabs :
          Len(orders'[t]) = Len(orders[t]) + 1 =>
            LET o == orders'[t][Len(orders'[t])]
                miles == parseFloat(form[t].deliveryMiles)
            IN /\ o.delivery.method = form[t].deliveryMethod
               /\ o.delivery.isNewParish = form[t].isNewParish
               /\ o.delivery.miles = IF Truthy(miles) THEN miles.val ELSE 0]_vars

\* the lookup of tab t completes in this step without a detected parish
LookupCompletedWithoutParish(t) ==
  /\ ~IsNull(lookup[t].pending) /\ IsNull(lookup'[t].pending)
  /\ lookup'[t].autoError = ""
  /\ lookup'[t].detectedParish = <<>>

\* C22: a lookup that completes without a detected parish sets the delivery
\* miles to the total estimated distance and leaves the quote priced with
\* the in-parish rule (new-parish flag off), whatever the flag was before.
C22_UnknownParishWithinParish ==
  [][\A t \in Tabs : LookupCompletedWithoutParish(t) =>
       LET miles == parseFloat(form'[t].deliveryMiles)
       IN /\ ~isNaN(miles)
          /\ miles.val = RoundToTenths(lookup'[t].autoTotalMiles, MilesUnit)
          /\ ~form'[t].isNewParish
          /\ deliveryCost'[t] =
               computeDeliveryCost(form'[t].deliveryMethod, form'[t].deliveryMiles, FALSE)]_vars

\* the flag of form f says that the detected parish is not the one of the
\* store selected in f
FlagFitsSelectedStore(f, detected) ==
  f.isNewParish = (detected # selectedStore(f).parish)

\* C23: the new-parish flag applied when a lookup completes is computed
\* against the store selected at completion time, and a change of the
\* selected store after the lookup keeps the flag equal to (detected parish
\* differs from the parish of the selected store).
C23_FlagFollowsSelectedStore ==
  [][\A t \in Tabs :
       /\ LookupCompletedWithParish(t)
            => FlagFitsSelectedStore(form'[t], lookup'[t].detectedParish)
       /\ (/\ IsNull(lookup[t].pending) /\ lookup' = lookup
            /\ lookup[t].detectedParish # <<>>
            /\ form'[t].selectedStoreId # form[t].selectedStoreId
            /\ FlagFitsSelectedStore(form[t], lookup[t].detectedParish))
            => FlagFitsSelectedStore(form'[t], lookup'[t].detectedParish)]_vars

\* a step of the address lookup of tab t that starts it or ends it in failure
AddressLookupStartsOrFails(t) ==
  \/ IsNull(lookup[t].pending) /\ ~IsNull(lookup'[t].pending)
       /\ Val(lookup'[t].pending).kind = "address"
  \/ ~IsNull(lookup[t].pending) /\ Val(lookup[t].pending).kind = "address"
       /\ IsNull(lookup'[t].pending) /\ lookup'[t].autoError # ""

\* C24: a failed address lookup changes nothing but the loading and error
\* flags: neither its start nor its failure changes the delivery miles, the
\* new-parish flag, the estimated total miles, the detected parish or the
\* calculator result.
C24_FailedLookupFrame ==
  [][\A t \in Tabs : AddressLookupStartsOrFails(t) =>
       /\ form'[t] = form[t]
       /\ result' = result /\ deliveryCost' = deliveryCost
       /\ lookup'[t].autoTotalMiles = lookup[t].autoTotalMiles
       /\ lookup'[t].detectedParish = lookup[t].detectedParish
       /\ lookup'[t].roadFactor = lookup[t].roadFactor]_vars

\* an address lookup failed after an earlier one had found Saint Ann 25 miles away
C24_Witness ==
  /\ IsNull(lookup[1].pending) /\ ~lookup[1].autoLoading
  /\ lookup[1].autoError = AddressLookupFailed
  /\ lookup[1].detectedParish = StoreParish.SaintAnn
  /\ lookup[1].autoTotalMiles = 25 * MilesUnit

\* what handlePlaceOrder asks for before it stores an order
MayPlaceOrder(t) ==
  LET miles == parseFloat(form[t].deliveryMiles)
  IN /\ ~IsNull(result[t]) /\ ~IsNull(loggedInUser[t])
     /\ Trim(form[t].customerName) # <<>> /\ Trim(form[t].customerPhone) # <<>>
     /\ (form[t].deliveryMethod = "delivery" /\ ~form[t].isNewParish)
          => (~isNaN(miles) /\ miles.val > 0)

\* order o names a customer, a phone number and a sales rep
OrderNamesParties(o) ==
  /\ Trim(o.customer.name) # <<>> /\ Trim(o.customer.phone) # <<>>
  /\ o.salesRep \notin {"", " "}

\* C25: handlePlaceOrder stores an order only when a result exists, a rep is
\* logged in, customer name and phone are non-blank and within-parish miles
\* are positive; otherwise it alerts and leaves the ledger in memory, the
\* persisted ledger and the customer fields unchanged; every stored order
\* has a non-blank customer name, phone and sales rep.
C25_PlaceOrderGuards ==
  /\ [][\A t \in Tabs :
          (\E randomPart \in RandomParts, ticket \in TicketSpace :
             HandlePlaceOrder(t, randomPart, ticket))
          => IF MayPlaceOrder(t)
             THEN Len(orders'[t]) = Len(orders[t]) + 1
             ELSE /\ alert'[t] \notin {"", "Order Created!"}
                  /\ orders' = orders /\ localStorage' = localStorage
                  /\ form' = form]_vars
  /\ [](/\ \A t \in Tabs : \A i \in 1..Len(orders[t]) : OrderNamesParties(orders[t][i])
        /\ \A i \in 1..Len(StoredOrders(localStorage)) :
             OrderNamesParties(StoredOrders(localStorage)[i]))

\* localStorage and the sessionStorage of tab t do not both hold a
\* remembered user
AtMostOneRemembered(t) ==
  IsNull(localStorage.loggedInUser) \/ IsNull(sessionStorage[t].loggedInUser)

\* C26 as stated: after any sequence of logins and logouts at most one of
\* localStorage and sessionStorage holds a remembered user.
C26_AsStated == \A t \in Tabs : open[t] => AtMostOneRemembered(t)

\* C26 (amended): a successful login of a tab leaves the user in exactly one
\* of localStorage and the sessionStorage of that tab, in localStorage iff
\* remember-me was checked; a logout leaves neither holding one; a reload
\* made while neither holds one shows the login screen.
C26_RememberedUser ==
  [][\A t \in Tabs :
       /\ (HandleLogin(t) /\ ~IsNull(loggedInUser'[t]))
            => /\ AtMostOneRemembered(t)'
               /\ IsNull(localStorage'.loggedInUser) = ~form[t].rememberMe
               /\ IsNull(sessionStorage'[t].loggedInUser) = form[t].rememberMe
       /\ HandleLogout(t)
            => /\ IsNull(localStorage'.loggedInUser)
               /\ IsNull(sessionStorage'[t].loggedInUser)
       /\ (Reload(t) /\ IsNull(localStorage.loggedInUser)
              /\ IsNull(sessionStorage[t].loggedInUser))
            => LoginScreen(t)']_vars

\* tab 1 shows the login screen after a logout and a reload, while tab 2 is
\* still logged in
C26_Witness ==
  /\ LoginScreen(1) /\ MainScreen(2)
  /\ IsNull(localStorage.loggedInUser) /\ IsNull(sessionStorage[1].loggedInUser)
  /\ ~IsNull(sessionStorage[2].loggedInUser)
  /\ form[1] = InitialForm

\* ---------------------------------------------------------------------
\* C27: every placed object of a session stands on the floor inside the
\* current room: its height is 0, its x and z lie within half the floor size
\* of the middle, and its scale is at least 0.01.
InsideRoom(t, o) ==
  /\ o.position[2] = 0
  /\ 0 - (floorSizeX(t) \div 2) <= o.position[1] /\ o.position[1] <= floorSizeX(t) \div 2
  /\ 0 - (floorSizeY(t) \div 2) <= o.position[3] /\ o.position[3] <= floorSizeY(t) \div 2
  /\ o.scale >= 1

C27_ObjectsInsideRoom ==
  \A t \in Tabs : \A i \in 1..Len(scene[t].objects) : InsideRoom(t, scene[t].objects[i])

\* ---------------------------------------------------------------------
\* C29: the orbit control of the camera is switched off only while the gizmo
\* of the selected object is held, and whenever it is off it is switched on
\* again later, also when the held object was deselected or removed.
OrbitOffOnlyWhileDragging == \A t \in Tabs : ~scene[t].orbitEnabled => scene[t].dragging

C29_OrbitReenabled ==
  /\ []OrbitOffOnlyWhileDragging
  /\ \A t \in {1} : ~scene[t].orbitEnabled ~> scene[t].orbitEnabled

\* ---------------------------------------------------------------------
\* C28: a call of generateTicketNumber that started while some ticket value
\* was unused returns, and the loop goes round again only after drawing a
\* ticket that an order of the ledger already carries.
SomeTicketUnused(t) == InLoop(t) /\ ~(TicketValues \subseteq Val(draw[t]).existing)

C28_TicketLoop ==
  /\ [][\A t \in Tabs :
          InLoop(t) /\ draw'[t] # NULL =>
            /\ Val(draw'[t]).ticket \in ExistingTickets(localStorage)
            /\ Val(draw'[t]).existing = ExistingTickets(localStorage)
            /\ orders'[t] = orders[t] /\ localStorage' = localStorage]_vars
  /\ \A t \in {1} : SomeTicketUnused(t) ~> ~InLoop(t)

\* the loop has gone round after drawing the ticket of the one order of the
\* ledger, and another value is still free
C28_Witness ==
  /\ InLoop(1) /\ Len(orders[1]) = 1
  /\ Val(draw[1]).ticket = orders[1][1].ticketNumber
  /\ SomeTicketUnused(1)

\* ---------------------------------------------------------------------
\* C30: a request whose url the install event cached is answered with the
\* cached response and without a network call, any other request is answered
\* by the network, and from the install event on the cache holds the
\* responses stored for "/" and "/index.html" unchanged.
HasCachedResponse(request) ==
  /\ request.method = "GET"
  /\ \E name \in DOMAIN worker.caches : \E i \in 1..Len(worker.caches[name]) :
       worker.caches[name][i].request.url = request.url

CachedAtInstall ==
  /\ DOMAIN worker.caches = {CACHE_NAME}
  /\ \E version \in 0..now : worker.caches[CACHE_NAME] = addAll(<<"/", "/index.html">>, version)

C30_CacheThenNetwork ==
  /\ [](worker.state = "activated" => CachedAtInstall)
  /\ [](~IsNull(worker.respondedWith) =>
         LET r == Val(worker.respondedWith)
         IN IF HasCachedResponse(r.request)
            THEN /\ ~r.network
                 /\ \E i \in 1..Len(worker.caches[CACHE_NAME]) :
                      /\ worker.caches[CACHE_NAME][i].request.url = r.request.url
                      /\ worker.caches[CACHE_NAME][i].response = r.response
            ELSE /\ r.network
                 /\ \/ r.response = NetworkError
                    \/ \E version \in 0..now :
                         r.response = NetworkResponse(r.request.url, version))
  /\ [][worker.state = "activated" => worker'.caches = worker.caches]_vars

\* "/" was cached at version 0 and is answered from the cache after the
\* server has moved on
C30_Witness ==
  /\ now > 0
  /\ worker.respondedWith =
       Some([request |-> Request("/"), response |-> NetworkResponse("/", 0), network |-> FALSE])

====
